---- MODULE Spec2Model ----
(***************************************************************************)
(* Face Filter Camera: the adaptive performance controller                 *)
(* (PerformanceManager), the render loop (FaceFilterApp.start / stop /     *)
(* animate), the filter renderer (FilterRenderer.render), the morph        *)
(* engine's region and parameter selection (MorphFilter) and the geometry  *)
(* utilities (viewportUtils).                                              *)
(*                                                                         *)
(* Numbers.  JavaScript numbers are modelled by integers.  Pixel           *)
(* coordinates of landmarks are whole pixels; the multipliers of the       *)
(* configuration (0.8, 1.2, 0.3, ...) are kept as integer numerators over  *)
(* a stated denominator (hundredths for MORPH, tenths for the blend        *)
(* factor), and every Math.floor / Math.ceil / Math.round is computed on   *)
(* the exact quotient.                                                     *)
(***************************************************************************)
EXTENDS Integers, Sequences, FiniteSets, TLC

VARIABLES
  pm,        \* PerformanceManager: its fields
  app,       \* FaceFilterApp: isRunning, animationFrameId, skipFrameCounter
  awaiting,  \* number of animate() executions suspended at `await detectFaces`
  rafQueue,  \* ids of the animation-frame callbacks requested and not yet run
  renderer,  \* FilterRenderer: currentFilterName
  morph,     \* MorphFilter: the parameters set by adjustForPerformance
  canvas,    \* the overlay canvas: what the last tick painted
  probe      \* a call of a pure function: its arguments and its result

vars == <<pm, app, awaiting, rafQueue, renderer, morph, canvas, probe>>

(***************************************************************************)
(* Bounds of the model                                                     *)
(***************************************************************************)
MaxFrames == 155   \* updateFPS calls in the controller's own specification
MaxTicks == 3      \* ticks begun in the render loop's specification
MaxLoopTicks == 33 \* ticks begun in the specification of the loop left running
MaxChains == 2     \* animate() executions suspended or scheduled at once

(***************************************************************************)
(* Configuration: src/config/constants.js                                  *)
(***************************************************************************)
\* A snapshot of faces as JavaScript holds it: null, undefined or an array.
NullFaces == [kind |-> "null", faces |-> <<>>]
UndefinedFaces == [kind |-> "undefined", faces |-> <<>>]
Array(faces) == [kind |-> "array", faces |-> faces]

\* mesh[i] of an index the array does not have
Undefined == <<>>

Tiers == {"high", "medium", "low"}

\* String.prototype.toUpperCase on the level names
toUpperCase(s) ==
  CASE s = "high" -> "HIGH"
    [] s = "medium" -> "MEDIUM"
    [] s = "low" -> "LOW"
    [] OTHER -> s

\* animationSpeed and detectionConfidence in tenths
PERFORMANCE ==
  [HIGH |-> [maxFaces |-> 5, skipFrames |-> 1, shadowBlur |-> 10,
             particleCount |-> 8, animationSpeed |-> 10, cleanupInterval |-> 60,
             targetFPS |-> 30, detectionConfidence |-> 5],
   MEDIUM |-> [maxFaces |-> 3, skipFrames |-> 2, shadowBlur |-> 5,
               particleCount |-> 6, animationSpeed |-> 8, cleanupInterval |-> 40,
               targetFPS |-> 24, detectionConfidence |-> 6],
   LOW |-> [maxFaces |-> 1, skipFrames |-> 5, shadowBlur |-> 0,
            particleCount |-> 4, animationSpeed |-> 6, cleanupInterval |-> 20,
            targetFPS |-> 20, detectionConfidence |-> 7]]

\* every factor and multiplier in hundredths
MORPH ==
  [HIGH |-> [intensity |-> 100, eyeScaleFactor |-> 250, mouthScaleFactor |-> 220,
             faceSlimFactor |-> 85, jawReductionFactor |-> 90,
             paddingMultiplier |-> 80, faceMultiplier |-> 120,
             heightMultiplier |-> 130],
   MEDIUM |-> [intensity |-> 90, eyeScaleFactor |-> 200, mouthScaleFactor |-> 180,
               faceSlimFactor |-> 88, jawReductionFactor |-> 92,
               paddingMultiplier |-> 60, faceMultiplier |-> 100,
               heightMultiplier |-> 110],
   LOW |-> [intensity |-> 80, eyeScaleFactor |-> 160, mouthScaleFactor |-> 140,
            faceSlimFactor |-> 90, jawReductionFactor |-> 95,
            paddingMultiplier |-> 40, faceMultiplier |-> 80,
            heightMultiplier |-> 90]]

(***************************************************************************)
(* Arithmetic helpers                                                      *)
(***************************************************************************)
Max(a, b) == IF a >= b THEN a ELSE b
Min(a, b) == IF a <= b THEN a ELSE b
Abs(a) == IF a < 0 THEN 0 - a ELSE a

\* Math.floor(n / d) and Math.ceil(n / d) for d > 0
FloorDiv(n, d) == n \div d
CeilDiv(n, d) == 0 - ((0 - n) \div d)

\* Math.round(n / d) for n >= 0, d > 0: halves round up
RoundDiv(n, d) == (2 * n + d) \div (2 * d)

(***************************************************************************)
(* PerformanceManager                                                      *)
(***************************************************************************)
\* The value of 1000 / 0 in JavaScript: above every finite frame rate.
Infinity == 1000000

\* the sampling period of updateFPS and the skip interval's limits
SampleFrames == 30
MaxSkip == 5
MinSkip == 1
FpsMargin == 5

\* new PerformanceManager()
PerformanceManagerNew ==
  [performanceLevel |-> "high", fps |-> 0, frameCount |-> 0,
   dynamicSkipInterval |-> 1, memoryPressureLevel |-> 0,
   lastFaces |-> Array(<<>>), cachedFaces |-> NullFaces]

\* Math.round(1000 / deltaTime), deltaTime in whole milliseconds
FpsOf(deltaTime) ==
  IF deltaTime = 0 THEN Infinity ELSE RoundDiv(1000, deltaTime)

\* the tier one step below
StepDownSkipsATier(level) ==
  IF level \in {"high", "medium"} THEN "low" ELSE level

StepDown(level) ==
  IF level = "high" THEN "medium"
  ELSE IF level = "medium" THEN "low"
  ELSE level

SkipUpUnclamped(skip) == skip + 1

SkipUp(skip) == Min(skip + 1, MaxSkip)

SkipDown(skip) == Max(skip - 1, MinSkip)

\* an updateFPS that leaves the skip interval alone at the lowest tier
updateFPSSkipFollowsTier(p, deltaTime) ==
  LET count == p.frameCount + 1
      p1 == [p EXCEPT !.frameCount = count]
  IN IF count % SampleFrames # 0 THEN p1
     ELSE
       LET fps == FpsOf(deltaTime)
           targetFPS == PERFORMANCE[toUpperCase(p.performanceLevel)].targetFPS
           p2 == [p1 EXCEPT !.fps = fps]
       IN IF fps < targetFPS - FpsMargin
          THEN [p2 EXCEPT !.dynamicSkipInterval =
                            IF p.performanceLevel = "low" THEN @
                            ELSE SkipUp(p.dynamicSkipInterval),
                          !.performanceLevel = StepDown(p.performanceLevel)]
          ELSE IF fps > targetFPS + FpsMargin /\ p.dynamicSkipInterval > 1
          THEN [p2 EXCEPT !.dynamicSkipInterval = SkipDown(p.dynamicSkipInterval)]
          ELSE p2

\* an updateFPS that keeps a running mean of the frame rate on every call
updateFPSRollingMean(p, deltaTime) ==
  LET count == p.frameCount + 1
      fps == (p.fps + FpsOf(deltaTime)) \div 2
      targetFPS == PERFORMANCE[toUpperCase(p.performanceLevel)].targetFPS
      p2 == [p EXCEPT !.frameCount = count, !.fps = fps]
  IN IF count % SampleFrames # 0 THEN p2
     ELSE IF fps < targetFPS - FpsMargin
     THEN [p2 EXCEPT !.dynamicSkipInterval = SkipUp(p.dynamicSkipInterval),
                     !.performanceLevel = StepDown(p.performanceLevel)]
     ELSE IF fps > targetFPS + FpsMargin /\ p.dynamicSkipInterval > 1
     THEN [p2 EXCEPT !.dynamicSkipInterval = SkipDown(p.dynamicSkipInterval)]
     ELSE p2

\* PerformanceManager.updateFPS(deltaTime): the manager after the call
updateFPS(p, deltaTime) ==
  LET count == p.frameCount + 1
      p1 == [p EXCEPT !.frameCount = count]
  IN IF count % SampleFrames # 0 THEN p1
     ELSE
       LET fps == FpsOf(deltaTime)
           targetFPS == PERFORMANCE[toUpperCase(p.performanceLevel)].targetFPS
           p2 == [p1 EXCEPT !.fps = fps]
       IN IF fps < targetFPS - FpsMargin
          THEN [p2 EXCEPT !.dynamicSkipInterval = SkipUp(p.dynamicSkipInterval),
                          !.performanceLevel = StepDown(p.performanceLevel)]
          ELSE IF fps > targetFPS + FpsMargin /\ p.dynamicSkipInterval > 1
          THEN [p2 EXCEPT !.dynamicSkipInterval = SkipDown(p.dynamicSkipInterval)]
          ELSE p2

\* a skip decision taken from the tier's skipFrames and the memory pressure
shouldSkipFrameBySettings(p, skipFrameCounter) ==
  skipFrameCounter
    % Min(PERFORMANCE[toUpperCase(p.performanceLevel)].skipFrames
          + p.memoryPressureLevel, 5) # 0

\* the interval taken as the number of ticks skipped between detections
shouldSkipFrameCountsSkipped(p, skipFrameCounter) ==
  skipFrameCounter % (p.dynamicSkipInterval + 1) # 0

\* PerformanceManager.shouldSkipFrame(skipFrameCounter)
shouldSkipFrame(p, skipFrameCounter) ==
  skipFrameCounter % p.dynamicSkipInterval # 0

\* PERFORMANCE_DETECTION, times in ms
HIGH_THRESHOLD_MOBILE == 15
HIGH_THRESHOLD_DESKTOP == 10
MEDIUM_THRESHOLD_MOBILE == 40
MEDIUM_THRESHOLD_DESKTOP == 30
CACHE_DURATION_MS == 86400000

\* navigator.userAgent and what BrowserDetector's and detectPerformance's
\* regular expressions find in it: desktop Chrome (its agent names Safari
\* after Chrome), desktop Safari, Chrome on Android, Safari on an iPhone
\* with iOS 17 and with iOS 11, and the BlackBerry browser (mobile, names
\* Safari, not iOS)
UserAgents ==
  {[name |-> "chrome-windows", isMobile |-> FALSE, isSafari |-> FALSE,
    isIOS |-> FALSE, isOlderiOS |-> FALSE],
   [name |-> "safari-mac", isMobile |-> FALSE, isSafari |-> TRUE,
    isIOS |-> FALSE, isOlderiOS |-> FALSE],
   [name |-> "chrome-android", isMobile |-> TRUE, isSafari |-> FALSE,
    isIOS |-> FALSE, isOlderiOS |-> FALSE],
   [name |-> "safari-iphone-os17", isMobile |-> TRUE, isSafari |-> TRUE,
    isIOS |-> TRUE, isOlderiOS |-> FALSE],
   [name |-> "safari-iphone-os11", isMobile |-> TRUE, isSafari |-> TRUE,
    isIOS |-> TRUE, isOlderiOS |-> TRUE],
   [name |-> "blackberry", isMobile |-> TRUE, isSafari |-> TRUE,
    isIOS |-> FALSE, isOlderiOS |-> FALSE]}

\* the item of localStorage under CACHE_KEY: kind "none" is no item (null),
\* "garbage" is text JSON.parse throws on, "null" is the text null (its
\* destructuring throws), "empty" is {} (no timestamp: the age is NaN),
\* "record" is {level, timestamp, userAgent}
CacheItem(kind, level, timestamp, userAgent) ==
  [kind |-> kind, level |-> level, timestamp |-> timestamp,
   userAgent |-> userAgent]

NoItem == CacheItem("none", "", 0, "")

\* a hit that does not look at the device signature
CacheHitAnyAgent(cached, now, userAgent) ==
  /\ cached.kind = "record"
  /\ now - cached.timestamp < CACHE_DURATION_MS

\* the cached item is there, parses, and passes the test of its age and
\* its userAgent
CacheHit(cached, now, userAgent) ==
  /\ cached.kind = "record"
  /\ now - cached.timestamp < CACHE_DURATION_MS
  /\ cached.userAgent = userAgent

\* the tier by the duration of the test loop
ClassifyDuration(agent, testDuration) ==
  LET highThreshold == IF agent.isMobile THEN HIGH_THRESHOLD_MOBILE
                       ELSE HIGH_THRESHOLD_DESKTOP
      mediumThreshold == IF agent.isMobile THEN MEDIUM_THRESHOLD_MOBILE
                         ELSE MEDIUM_THRESHOLD_DESKTOP
  IN IF testDuration < highThreshold THEN "high"
     ELSE IF testDuration < mediumThreshold THEN "medium"
     ELSE "low"

\* `Safari-specific adjustments` and `Additional mobile adjustments`
PlatformAdjust(agent, level) ==
  LET safari1 == IF agent.isSafari /\ level = "high" THEN "medium" ELSE level
      safari2 == IF /\ agent.isSafari
                    /\ agent.isIOS
                    /\ (agent.isOlderiOS \/ safari1 = "medium")
                 THEN "low" ELSE safari1
  IN IF agent.isMobile /\ ~agent.isSafari /\ safari2 = "high"
     THEN "medium" ELSE safari2

\* PerformanceManager.detectPerformance() at the time now: the manager
\* after it, whether the test loop ran, its classification, whether
\* setItem was called, and the item stored afterwards
detectPerformance(p, cached, agent, now, testDuration, setItemThrows) ==
  IF CacheHit(cached, now, agent.name)
  THEN [pm |-> [p EXCEPT !.performanceLevel = cached.level],
        probed |-> FALSE, raw |-> "", wrote |-> FALSE, stored |-> cached]
  ELSE
    LET raw == ClassifyDuration(agent, testDuration)
        level == PlatformAdjust(agent, raw)
    IN [pm |-> [p EXCEPT !.performanceLevel = level],
        probed |-> TRUE, raw |-> raw, wrote |-> TRUE,
        stored |-> IF setItemThrows THEN cached
                   ELSE CacheItem("record", level, now + testDuration,
                                  agent.name)]

\* updateFPS reads .targetFPS of PERFORMANCE[...] at a sampling frame: a
\* TypeError, after frameCount++, when the tier names no bundle
updateFPSThrows(p) ==
  /\ (p.frameCount + 1) % SampleFrames = 0
  /\ p.performanceLevel \notin Tiers

\* the frame intervals fed to updateFPS, in ms: 0 (two callbacks in the
\* same millisecond), fast, on target and slow frames
DeltaTimes == {0, 8, 16, 33, 40, 45, 60, 100, 3000}

\* currentTime - lastFrameTime as the render loop measures it: no time, a
\* fast frame (63 fps), a frame within 5 of every target (25 fps), a slow one
LoopDeltaTimes == {0, 16, 40, 100}

\* the adjustment without its clamps
getQualitySettingsUnclamped(p) ==
  LET settings == PERFORMANCE[toUpperCase(p.performanceLevel)]
      level == p.memoryPressureLevel
  IN [settings EXCEPT !.skipFrames = settings.skipFrames + level,
                      !.particleCount = settings.particleCount - level,
                      !.shadowBlur = settings.shadowBlur - level * 2]

\* PerformanceManager.getQualitySettings(): a copy of the tier's bundle,
\* adjusted by the memory pressure; the copy has the bundle's fields only
getQualitySettings(p) ==
  LET settings == PERFORMANCE[toUpperCase(p.performanceLevel)]
      level == p.memoryPressureLevel
  IN IF level > 0
     THEN [settings EXCEPT
             !.skipFrames = Min(settings.skipFrames + level, 5),
             !.particleCount = Max(settings.particleCount - level, 1),
             !.shadowBlur = Max(settings.shadowBlur - level * 2, 0)]
     ELSE settings

\* PerformanceManager.getStats()
getStats(p) ==
  [performanceLevel |-> p.performanceLevel, fps |-> p.fps,
   frameCount |-> p.frameCount, skipInterval |-> p.dynamicSkipInterval,
   memoryPressure |-> p.memoryPressureLevel]

\* MEMORY.PRESSURE_THRESHOLD_LOW / _HIGH
PRESSURE_THRESHOLD_LOW == 25
PRESSURE_THRESHOLD_HIGH == 50

\* a memory update that lowers the tier under high pressure
manageTensorMemoryLoweringTier(p, numTensors) ==
  [p EXCEPT !.memoryPressureLevel =
              IF numTensors > PRESSURE_THRESHOLD_HIGH THEN 2
              ELSE IF numTensors > PRESSURE_THRESHOLD_LOW THEN 1
              ELSE 0,
            !.performanceLevel =
              IF numTensors > PRESSURE_THRESHOLD_HIGH
              THEN StepDown(p.performanceLevel)
              ELSE p.performanceLevel]

\* PerformanceManager.manageTensorMemory(tf): the manager after the call
manageTensorMemory(p, numTensors) ==
  [p EXCEPT !.memoryPressureLevel =
     IF numTensors > PRESSURE_THRESHOLD_HIGH THEN 2
     ELSE IF numTensors > PRESSURE_THRESHOLD_LOW THEN 1
     ELSE 0]

\* manageTensorMemory calls tf.disposeVariables() and opens and closes an
\* engine scope: the manager p is the one after the call
DisposesVariables(p) == p.memoryPressureLevel > 1

\* tf.memory().numTensors as the loop may find it
TensorCounts == {0, 26, 51}

(***************************************************************************)
(* Landmarks and faces.  A mesh is the detector's array of points          *)
(* <<x, y, depth>>, in tenths of a pixel, seen at the indices the code     *)
(* reads: a function whose domain is the set of those indices below the    *)
(* array's length.  mesh[i] of an index outside it is undefined.           *)
(***************************************************************************)
NOSE_TIP == 1
FOREHEAD_CENTER == 9
LEFT_EYE == 33
RIGHT_EYE == 263
LEFT_MOUTH == 61
RIGHT_MOUTH == 291
LEFT_CHEEK == 116
RIGHT_CHEEK == 345
LEFT_EYE_CENTER == 468
RIGHT_EYE_CENTER == 473
LEFT_EYE_INNER == 133
LEFT_EYE_OUTER == 33
FACE_LEFT == 172
FACE_RIGHT == 397
CHIN_TIP == 175
MOUTH_TOP_CENTER == 13
MOUTH_BOTTOM_CENTER == 17

At(mesh, i) == IF i \in DOMAIN mesh THEN mesh[i] ELSE Undefined

\* the mesh an array of the given length shows of the full set of points
Truncate(mesh, length) ==
  [i \in {j \in DOMAIN mesh : j < length} |-> mesh[i]]

\* a face looking at the camera in the middle of a 640 x 480 canvas
FullMesh ==
  (NOSE_TIP :> <<3200, 2600, 0>>) @@ (FOREHEAD_CENTER :> <<3200, 1400, 0>>) @@
  (LEFT_EYE :> <<2200, 2000, 0>>) @@ (RIGHT_EYE :> <<4200, 2000, 0>>) @@
  (LEFT_MOUTH :> <<2700, 3200, 0>>) @@ (RIGHT_MOUTH :> <<3700, 3200, 0>>) @@
  (LEFT_CHEEK :> <<2000, 2600, 0>>) @@ (RIGHT_CHEEK :> <<4400, 2600, 0>>) @@
  (LEFT_EYE_INNER :> <<2800, 2000, 0>>) @@
  (FACE_LEFT :> <<1800, 3000, 0>>) @@ (FACE_RIGHT :> <<4600, 3000, 0>>) @@
  (CHIN_TIP :> <<3200, 3800, 0>>) @@
  (MOUTH_TOP_CENTER :> <<3200, 3100, 0>>) @@
  (MOUTH_BOTTOM_CENTER :> <<3200, 3300, 0>>)

\* the same face far to the right of the canvas
Shift(mesh, dx) ==
  [i \in DOMAIN mesh |-> <<mesh[i][1] + dx, mesh[i][2], mesh[i][3]>>]

GoodFace == [id |-> "good", scaledMesh |-> FullMesh]
\* an array of 200 points: RIGHT_EYE and every later index are absent
ShortFace == [id |-> "short", scaledMesh |-> Truncate(FullMesh, 200)]
\* an array of 300 points: both eyes are there, FACE_RIGHT is absent
MidFace == [id |-> "mid", scaledMesh |-> Truncate(FullMesh, 300)]
FarFace == [id |-> "far", scaledMesh |-> Shift(FullMesh, 20000)]

\* what model.estimateFaces resolves to
DetectorOutputs ==
  {<<>>, <<GoodFace>>, <<GoodFace, ShortFace>>, <<ShortFace, GoodFace>>,
   <<MidFace, FarFace, GoodFace>>}

\* the overlay takes the video's size: CAMERA_CONFIG's ideal 640 x 480
CanvasWidth == 640
CanvasHeight == 480

(***************************************************************************)
(* viewportUtils                                                           *)
(***************************************************************************)
\* getFacePoints(face)
getFacePoints(face) ==
  LET mesh == face.scaledMesh
  IN [noseTip |-> At(mesh, NOSE_TIP), leftEye |-> At(mesh, LEFT_EYE),
      rightEye |-> At(mesh, RIGHT_EYE),
      foreheadCenter |-> At(mesh, FOREHEAD_CENTER),
      leftMouth |-> At(mesh, LEFT_MOUTH), rightMouth |-> At(mesh, RIGHT_MOUTH),
      leftCheek |-> At(mesh, LEFT_CHEEK), rightCheek |-> At(mesh, RIGHT_CHEEK)]

\* getFaceDimensions(points) reads [0] or [1] of these four points: a
\* TypeError when one of them is undefined
FaceDimensionsThrow(points) ==
  \/ points.rightEye = Undefined
  \/ points.leftEye = Undefined
  \/ points.foreheadCenter = Undefined
  \/ points.noseTip = Undefined

\* getFaceDimensions(points); eyeCenter2 is twice the eye center (the
\* midpoint of whole numbers need not be whole)
getFaceDimensions(points) ==
  [faceWidth |-> Abs(points.rightEye[1] - points.leftEye[1]),
   faceHeight |-> Abs(points.foreheadCenter[2] - points.noseTip[2]),
   eyeCenter2 |-> <<points.leftEye[1] + points.rightEye[1],
                    points.leftEye[2] + points.rightEye[2]>>]

\* isInViewport(x, y, radius, canvasWidth, canvasHeight)
isInViewport(x, y, radius, canvasWidth, canvasHeight) ==
  /\ x + radius >= 0
  /\ x - radius <= canvasWidth
  /\ y + radius >= 0
  /\ y - radius <= canvasHeight

\* shouldCullAnimation(face, canvasWidth, canvasHeight), the canvas in
\* pixels: "throw" (a TypeError), "cull" (true) or "keep" (false).
\* MAX_FILTER_RADIUS_MULTIPLIER is 0.8: the comparison is made in hundredths
\* of a pixel.
shouldCullAnimation(face, canvasWidth, canvasHeight) ==
  LET points == getFacePoints(face)
  IN IF FaceDimensionsThrow(points) THEN "throw"
     ELSE LET maxRadius == getFaceDimensions(points).faceWidth * 8
          IN IF isInViewport(points.noseTip[1] * 10, points.noseTip[2] * 10,
                             maxRadius, canvasWidth * 100, canvasHeight * 100)
             THEN "keep" ELSE "cull"

\* getPixel(px, py) of bilinearSample: imageData is the buffer, a function
\* on 0..(length - 1); a channel that is undefined or 0 takes the default
\* of its `||`
OrDefault(imageData, index, default) ==
  IF index \in DOMAIN imageData /\ imageData[index] # 0
  THEN imageData[index]
  ELSE default

getPixel(imageData, px, py, width) ==
  LET index == (py * width + px) * 4
  IN <<OrDefault(imageData, index, 0), OrDefault(imageData, index + 1, 0),
       OrDefault(imageData, index + 2, 0), OrDefault(imageData, index + 3, 255)>>

\* bilinearSample(imageData, x, y, width, height) at the point (x2 / 2,
\* y2 / 2): the coordinates are given in half pixels, so that the
\* fractional offsets fx, fy are 0 or 1/2
bilinearSample(imageData, x2, y2, width, height) ==
  LET cx2 == Max(0, Min(2 * (width - 1), x2))
      cy2 == Max(0, Min(2 * (height - 1), y2))
      x1 == FloorDiv(cx2, 2)
      y1 == FloorDiv(cy2, 2)
      xr == Min(x1 + 1, width - 1)
      yr == Min(y1 + 1, height - 1)
      fx2 == cx2 - 2 * x1
      fy2 == cy2 - 2 * y1
      p1 == getPixel(imageData, x1, y1, width)
      p2 == getPixel(imageData, xr, y1, width)
      p3 == getPixel(imageData, x1, yr, width)
      p4 == getPixel(imageData, xr, yr, width)
      \* twice top and twice bottom, then four times the blend
      top2(i) == p1[i] * (2 - fx2) + p2[i] * fx2
      bottom2(i) == p3[i] * (2 - fx2) + p4[i] * fx2
  IN [i \in 1..4 |-> RoundDiv(top2(i) * (2 - fy2) + bottom2(i) * fy2, 4)]

(***************************************************************************)
(* MorphFilter                                                             *)
(***************************************************************************)
\* MorphFilter.adjustForPerformance(performanceLevel): the filter after it
adjustForPerformance(m, performanceLevel) ==
  LET key == toUpperCase(performanceLevel)
  IN IF key \in DOMAIN MORPH
     THEN [m EXCEPT !.intensity = MORPH[key].intensity,
                    !.eyeScaleFactor = MORPH[key].eyeScaleFactor,
                    !.mouthScaleFactor = MORPH[key].mouthScaleFactor,
                    !.faceSlimFactor = MORPH[key].faceSlimFactor,
                    !.jawReductionFactor = MORPH[key].jawReductionFactor]
     ELSE m

\* the left edge of the region, before it is clamped: Math.floor of
\* eyeCenter - extent * multiplier - padding.  center2 is twice the center
\* and extent, padding100 are in tenths of a pixel (padding100 times 100);
\* the result is in pixels.
RegionLow(center2, extent, multiplier, padding100) ==
  FloorDiv(50 * center2 - extent * multiplier - padding100, 1000)

\* the right edge, before it is clamped: Math.ceil
RegionHigh(center2, extent, multiplier, padding100) ==
  CeilDiv(50 * center2 + extent * multiplier + padding100, 1000)

\* MorphFilter.calculateProcessingRegion(eyeCenter, faceWidth, faceHeight,
\* canvasWidth, canvasHeight, performanceLevel): eyeCenter2 is twice the
\* eye center; it and the face's sizes are in tenths of a pixel, the canvas
\* and the region in pixels
calculateProcessingRegion(eyeCenter2, faceWidth, faceHeight, canvasWidth, canvasHeight, performanceLevel) ==
  LET config == MORPH[toUpperCase(performanceLevel)]
      padding100 == Max(faceWidth, faceHeight) * config.paddingMultiplier
      minX == Max(0, RegionLow(eyeCenter2[1], faceWidth,
                               config.faceMultiplier, padding100))
      maxX == Min(canvasWidth, RegionHigh(eyeCenter2[1], faceWidth,
                                          config.faceMultiplier, padding100))
      minY == Max(0, RegionLow(eyeCenter2[2], faceHeight,
                               config.heightMultiplier, padding100))
      maxY == Min(canvasHeight, RegionHigh(eyeCenter2[2], faceHeight,
                                           config.heightMultiplier, padding100))
  IN [minX |-> minX, minY |-> minY, width |-> maxX - minX, height |-> maxY - minY]

\* inverseTransformPoint reads [0] or [1] of faceLeft, faceRight,
\* foreheadCenter, chinTip and, the eye center being there, of leftEyeOuter
\* and leftEyeInner: a TypeError in the pixel loop when one is undefined
InverseTransformThrows(face) ==
  LET mesh == face.scaledMesh
      eyeCenter(center, eye) ==
        IF At(mesh, center) # Undefined THEN At(mesh, center) ELSE At(mesh, eye)
  IN \/ \E i \in {FACE_LEFT, FACE_RIGHT, FOREHEAD_CENTER, CHIN_TIP} :
          At(mesh, i) = Undefined
     \/ /\ \/ eyeCenter(LEFT_EYE_CENTER, LEFT_EYE) # Undefined
           \/ eyeCenter(RIGHT_EYE_CENTER, RIGHT_EYE) # Undefined
        /\ \E i \in {LEFT_EYE_OUTER, LEFT_EYE_INNER} : At(mesh, i) = Undefined

\* MORPH's region constants, in hundredths
EYE_REGION_MULTIPLIER == 120
EYE_EXTREME_MULTIPLIER == 130
MOUTH_REGION_MULTIPLIER == 90
MOUTH_EXTREME_MULTIPLIER == 140
FACE_WIDTH_INFLUENCE == 60
FACE_HEIGHT_INFLUENCE == 60
FACE_SLIM_INTENSITY == 80
MOUTH_LEFT_CORNER == 61
MOUTH_RIGHT_CORNER == 291

\* a || b of two mesh entries
OrElse(a, b) == IF a # Undefined THEN a ELSE b

\* MorphFilter.getMorphingLandmarks(face); mouthCenter2 is twice the mouth
\* center, Undefined standing for null
getMorphingLandmarks(face) ==
  LET mesh == face.scaledMesh
      mouthLeftCorner == At(mesh, MOUTH_LEFT_CORNER)
      mouthRightCorner == At(mesh, MOUTH_RIGHT_CORNER)
  IN [leftEyeCenter |-> OrElse(At(mesh, LEFT_EYE_CENTER), At(mesh, LEFT_EYE)),
      rightEyeCenter |-> OrElse(At(mesh, RIGHT_EYE_CENTER), At(mesh, RIGHT_EYE)),
      leftEyeInner |-> At(mesh, LEFT_EYE_INNER),
      leftEyeOuter |-> At(mesh, LEFT_EYE_OUTER),
      faceLeft |-> At(mesh, FACE_LEFT),
      faceRight |-> At(mesh, FACE_RIGHT),
      chinTip |-> At(mesh, CHIN_TIP),
      foreheadCenter |-> At(mesh, FOREHEAD_CENTER),
      mouthLeftCorner |-> mouthLeftCorner,
      mouthRightCorner |-> mouthRightCorner,
      mouthTopCenter |-> At(mesh, MOUTH_TOP_CENTER),
      mouthBottomCenter |-> At(mesh, MOUTH_BOTTOM_CENTER),
      mouthCenter2 |->
        IF mouthLeftCorner # Undefined /\ mouthRightCorner # Undefined
        THEN <<mouthLeftCorner[1] + mouthRightCorner[1],
               mouthLeftCorner[2] + mouthRightCorner[2]>>
        ELSE Undefined]

\* Math.cos(d * Math.PI / 2), and the same to the powers 0.7 and 0.6, in
\* thousandths, at d = 0, 0.1, ... 1
CosFalloff == <<1000, 988, 951, 891, 809, 707, 588, 454, 309, 156, 0>>
CosFalloff07 == <<1000, 991, 965, 922, 862, 785, 689, 575, 440, 273, 0>>
CosFalloff06 == <<1000, 993, 970, 933, 881, 812, 727, 623, 494, 329, 0>>

\* the tenths in a normalized distance d <= 1, given d * d as the quotient
\* of two whole numbers
Tenths(squared, unitSquared) ==
  CHOOSE k \in 0..10 :
    /\ k * k * unitSquared <= 100 * squared
    /\ k = 10 \/ (k + 1) * (k + 1) * unitSquared > 100 * squared

\* the value 0 / 0 has and every value computed from it; it stands among
\* the influences, none of which is negative, and like NaN it is not > 0
NaN == -1

\* MorphFilter.calculateEyeInfluence(x, y, eyeCenter, landmarks), in
\* thousandths; x, y in tenths of a pixel, the eye radius cut to tenths of
\* a pixel, the falloff taken at the tenth below the normalized distance.
\* A radius of 0 at distance 0: distance / eyeRadius is 0 / 0.
calculateEyeInfluence(m, x, y, eyeCenter, landmarks) ==
  IF eyeCenter = Undefined THEN 0
  ELSE
    LET squared == (x - eyeCenter[1]) * (x - eyeCenter[1])
                   + (y - eyeCenter[2]) * (y - eyeCenter[2])
        extreme == m.eyeScaleFactor > 200
        eyeRadius ==
          (Abs(landmarks.leftEyeOuter[1] - landmarks.leftEyeInner[1])
           * EYE_REGION_MULTIPLIER
           * (IF extreme THEN EYE_EXTREME_MULTIPLIER ELSE 100)) \div 10000
    IN IF squared > eyeRadius * eyeRadius THEN 0
       ELSE IF eyeRadius = 0 THEN NaN
       ELSE LET k == Tenths(squared, eyeRadius * eyeRadius)
            IN IF extreme THEN CosFalloff07[k + 1] ELSE CosFalloff[k + 1]

\* MorphFilter.calculateFaceSlimInfluence(x, y, landmarks), in thousandths,
\* each of its two factors cut to thousandths.  On the center line of a
\* face of no width (or no height) the distance over the extent is 0 / 0,
\* Math.max(0, NaN) is NaN and so is the product.
calculateFaceSlimInfluence(x, y, landmarks) ==
  LET faceWidth == Abs(landmarks.faceRight[1] - landmarks.faceLeft[1])
      faceHeight == Abs(landmarks.foreheadCenter[2] - landmarks.chinTip[2])
      \* twice the distances from the center
      distanceX2 == Abs(2 * x - (landmarks.faceLeft[1] + landmarks.faceRight[1]))
      distanceY2 == Abs(2 * y - (landmarks.foreheadCenter[2] + landmarks.chinTip[2]))
  IN IF \/ distanceX2 * 100 > 2 * faceWidth * FACE_WIDTH_INFLUENCE
        \/ distanceY2 * 100 > 2 * faceHeight * FACE_HEIGHT_INFLUENCE
     THEN 0
     ELSE IF faceWidth = 0 \/ faceHeight = 0 THEN NaN
     ELSE
       LET horizontalInfluence ==
             Max(0, (1000 * (6 * faceWidth - 10 * distanceX2)) \div (6 * faceWidth))
           verticalInfluence ==
             Max(0, (1000 * (12 * faceHeight - 10 * distanceY2)) \div (12 * faceHeight))
       IN (horizontalInfluence * verticalInfluence * FACE_SLIM_INTENSITY) \div 100000

\* MorphFilter.calculateMouthInfluence(x, y, mouthCenter, landmarks), in
\* thousandths; the radii in thousandths of a pixel, the normalized offsets
\* cut to hundredths.  With a radius of 0 the normalized offset is 0 / 0
\* at offset 0 and infinite elsewhere: the elliptical distance is NaN when
\* either offset is, and NaN > 1.0 is false.
calculateMouthInfluence(m, x, y, mouthCenter2, landmarks) ==
  IF \/ mouthCenter2 = Undefined
     \/ landmarks.mouthLeftCorner = Undefined
     \/ landmarks.mouthRightCorner = Undefined
  THEN 0
  ELSE
    LET mouthWidth == Abs(landmarks.mouthRightCorner[1] - landmarks.mouthLeftCorner[1])
        \* in thousandths of a pixel
        mouthHeight ==
          IF /\ landmarks.mouthBottomCenter # Undefined
             /\ landmarks.mouthTopCenter # Undefined
          THEN 100 * Abs(landmarks.mouthBottomCenter[2] - landmarks.mouthTopCenter[2])
          ELSE 30 * mouthWidth
        extreme == m.mouthScaleFactor > 180
        scaleMultiplier == IF extreme THEN MOUTH_EXTREME_MULTIPLIER ELSE 100
        mouthRadiusX == (mouthWidth * MOUTH_REGION_MULTIPLIER * scaleMultiplier) \div 100
        mouthRadiusY ==
          ((Max(mouthHeight * 150, mouthWidth * 5000) \div 100) * scaleMultiplier) \div 100
        offsetX2 == Abs(2 * x - mouthCenter2[1])
        offsetY2 == Abs(2 * y - mouthCenter2[2])
    IN IF \/ mouthRadiusX = 0 /\ offsetX2 = 0
          \/ mouthRadiusY = 0 /\ offsetY2 = 0
       THEN NaN
       ELSE IF mouthRadiusX = 0 \/ mouthRadiusY = 0 THEN 0
       ELSE IF offsetX2 * 50 > mouthRadiusX \/ offsetY2 * 50 > mouthRadiusY THEN 0
       ELSE
         LET normalizedX == (offsetX2 * 5000) \div mouthRadiusX
             normalizedY == (offsetY2 * 5000) \div mouthRadiusY
             squared == normalizedX * normalizedX + normalizedY * normalizedY
         IN IF squared > 10000 THEN 0
            ELSE LET k == Tenths(squared, 10000)
                 IN IF extreme THEN CosFalloff06[k + 1] ELSE CosFalloff[k + 1]

\* a scale that leaves the intensity out
ScaleAtFullIntensity(factor, influence, intensity) ==
  10000 + ((factor - 100) * influence * 100) \div 1000

\* 1 + (factor - 1) * influence * intensity, in ten-thousandths: the scale
\* of an enlargement, and for factor < 1 the compression of the face
ScaleOf(factor, influence, intensity) ==
  10000 + ((factor - 100) * influence * intensity) \div 1000

\* center + (coordinate - center) * (1 / scale), in hundredths of a pixel
ScaleAbout(center, coordinate, scale) ==
  center + RoundDiv((coordinate - center) * 10000, scale)

\* MorphFilter.inverseTransformPoint(x, y, landmarks, ...) of the filter m:
\* x, y in tenths of a pixel, the source point in hundredths of a pixel
inverseTransformPoint(m, x, y, landmarks) ==
  LET faceCenter == 5 * (landmarks.faceLeft[1] + landmarks.faceRight[1])
      faceInfluence == calculateFaceSlimInfluence(x, y, landmarks)
      slimX == IF faceInfluence > 0
               THEN ScaleAbout(faceCenter, 10 * x,
                      ScaleOf(m.faceSlimFactor, faceInfluence, m.intensity))
               ELSE 10 * x
      slimY == 10 * y
      leftEyeInfluence ==
        calculateEyeInfluence(m, x, y, landmarks.leftEyeCenter, landmarks)
      rightEyeInfluence ==
        calculateEyeInfluence(m, x, y, landmarks.rightEyeCenter, landmarks)
      leftScale == ScaleOf(m.eyeScaleFactor, leftEyeInfluence, m.intensity)
      leftX == IF leftEyeInfluence > 0
               THEN ScaleAbout(10 * landmarks.leftEyeCenter[1], slimX, leftScale)
               ELSE slimX
      leftY == IF leftEyeInfluence > 0
               THEN ScaleAbout(10 * landmarks.leftEyeCenter[2], slimY, leftScale)
               ELSE slimY
      rightScale == ScaleOf(m.eyeScaleFactor, rightEyeInfluence, m.intensity)
      rightX == IF rightEyeInfluence > 0
                THEN ScaleAbout(10 * landmarks.rightEyeCenter[1], leftX, rightScale)
                ELSE leftX
      rightY == IF rightEyeInfluence > 0
                THEN ScaleAbout(10 * landmarks.rightEyeCenter[2], leftY, rightScale)
                ELSE leftY
      mouthInfluence ==
        calculateMouthInfluence(m, x, y, landmarks.mouthCenter2, landmarks)
      mouthScale == ScaleOf(m.mouthScaleFactor, mouthInfluence, m.intensity)
  IN IF mouthInfluence > 0
     THEN <<ScaleAbout(5 * landmarks.mouthCenter2[1], rightX, mouthScale),
            ScaleAbout(5 * landmarks.mouthCenter2[2], rightY, mouthScale)>>
     ELSE <<rightX, rightY>>

MorphErrorRethrown(failed) == failed

\* catch (error) { } of draw: whether a failure of the pixel read, the
\* pixel loop or the pixel write goes on out of draw
MorphErrorEscapes(failed) == FALSE

\* MorphFilter.draw(ctx, face, animationTime, qualitySettings): the filter
\* after the call, whether the call threw, and what it put on the canvas:
\* the face, the region written and the parameters of the warp, each as a
\* one-element tuple (nothing when the region is empty or when the read,
\* the pixel loop or the write throws: the catch of draw swallows that).
\* ctxFails is the canvas call that throws: "read" (getImageData), "write"
\* (putImageData) or "none".  getFaceDimensions is called outside the try.
MorphDrawWith(m, face, options, ctxFails) ==
  LET m1 == adjustForPerformance(m, options.performanceLevel)
      dims == getFaceDimensions(getFacePoints(face))
      region == calculateProcessingRegion(dims.eyeCenter2, dims.faceWidth,
                  dims.faceHeight, CanvasWidth, CanvasHeight,
                  options.performanceLevel)
      config == MORPH[toUpperCase(options.performanceLevel)]
      failed == ctxFails # "none" \/ InverseTransformThrows(face)
      painted == /\ region.width > 0
                 /\ region.height > 0
                 /\ ~failed
  IN IF FaceDimensionsThrow(getFacePoints(face))
     THEN [morph |-> m1, threw |-> TRUE, drawn |-> <<>>]
     ELSE
     [morph |-> m1,
      threw |-> region.width > 0 /\ region.height > 0 /\ MorphErrorEscapes(failed),
      drawn |-> IF painted
                THEN <<[face |-> face.id, filter |-> "face_morph",
                        region |-> <<region>>,
                        params |-> <<[intensity |-> m1.intensity,
                                    eyeScaleFactor |-> m1.eyeScaleFactor,
                                    mouthScaleFactor |-> m1.mouthScaleFactor,
                                    faceSlimFactor |-> m1.faceSlimFactor,
                                    jawReductionFactor |-> m1.jawReductionFactor,
                                    paddingMultiplier |-> config.paddingMultiplier,
                                    faceMultiplier |-> config.faceMultiplier,
                                    heightMultiplier |-> config.heightMultiplier]>>]>>
                ELSE <<>>]

\* the draw of the loop: the canvas calls do not throw
MorphDraw(m, face, options) == MorphDrawWith(m, face, options, "none")

\* filterDefinitions: the type of each filter and the positions of its parts
filterDefinitions ==
  [bouncing_balls |-> [type |-> "animated",
                       parts |-> <<"left_eye", "right_eye", "nose">>],
   twinkling_stars |-> [type |-> "animated",
                        parts |-> <<"crown", "left_cheek", "right_cheek">>],
   floating_hearts |-> [type |-> "animated", parts |-> <<"around_face">>],
   pet_dots |-> [type |-> "animated",
                 parts |-> <<"random_orbit", "random_orbit", "random_orbit">>],
   prey_fish |-> [type |-> "animated",
                  parts |-> <<"horizontal_swim", "horizontal_swim">>],
   sparkle_burst |-> [type |-> "particle", parts |-> <<"nose">>],
   face_morph |-> [type |-> "morph", parts |-> <<>>]]

\* AnimatedFilter.getPartPosition throws a TypeError: the landmark the
\* position reads is not in the mesh (crown reads foreheadCenter, the
\* orbits and the default read the eye center only)
PartPositionThrows(position, face) ==
  LET points == getFacePoints(face)
  IN \/ position = "left_eye" /\ points.leftEye = Undefined
     \/ position = "right_eye" /\ points.rightEye = Undefined
     \/ position = "nose" /\ points.noseTip = Undefined
     \/ position = "crown" /\ points.foreheadCenter = Undefined
     \/ position = "left_cheek" /\ points.leftCheek = Undefined
     \/ position = "right_cheek" /\ points.rightCheek = Undefined

\* AnimatedFilter.draw of the filter of that name on a face whose
\* getFaceDimensions does not throw: the parts are drawn in their order
\* until the position of one throws, which leaves draw
AnimatedDraw(filterName, m, face, options) ==
  LET parts == filterDefinitions[filterName].parts
      failing == {i \in 1..Len(parts) : PartPositionThrows(parts[i], face)}
      first == CHOOSE i \in failing : \A j \in failing : i <= j
  IN IF failing = {}
     THEN [morph |-> m, threw |-> FALSE,
           drawn |-> <<[face |-> face.id, filter |-> filterName,
                        region |-> <<>>, params |-> <<>>]>>]
     ELSE [morph |-> m, threw |-> TRUE,
           drawn |-> IF first = 1 THEN <<>>
                     ELSE <<[face |-> face.id, filter |-> filterName,
                             region |-> <<>>,
                             params |-> <<[parts |-> first - 1]>>]>>]

(***************************************************************************)
(* FilterRenderer                                                          *)
(***************************************************************************)
\* the filter buttons the model of the loop presses
FilterNames == {"bouncing_balls", "face_morph"}

\* a setFilter that takes any name
setFilterUnchecked(r, filterName) == [r EXCEPT !.currentFilterName = filterName]

\* FilterRenderer.setFilter(filterName): what the call returns
setFilterReturns(r, filterName) ==
  filterName = "none" \/ filterName \in DOMAIN filterDefinitions

\* FilterRenderer.setFilter(filterName): the renderer after the call
setFilter(r, filterName) ==
  IF filterName = "none" \/ filterName \in DOMAIN filterDefinitions
  THEN [r EXCEPT !.currentFilterName = filterName]
  ELSE r

\* the options render hands to draw: the quality settings, and their
\* performanceLevel or, there being none, 'high'
DrawOptions(qualitySettings) ==
  [settings |-> qualitySettings,
   performanceLevel |->
     IF "performanceLevel" \in DOMAIN qualitySettings
     THEN qualitySettings.performanceLevel
     ELSE "high"]

\* the body of faces.forEach in render for one face that is not culled:
\* try { filter.draw(...) } catch { }
DrawFace(r, m, face, qualitySettings) ==
  IF filterDefinitions[r.currentFilterName].type = "morph"
  THEN MorphDraw(m, face, DrawOptions(qualitySettings))
  ELSE AnimatedDraw(r.currentFilterName, m, face, DrawOptions(qualitySettings))

DrawErrorRethrown(threw) == threw

\* catch (error) { } around filter.draw: whether the draw's exception goes
\* on out of the forEach
DrawErrorEscapes(threw) == FALSE

\* faces.forEach from face i on: shouldCullAnimation is called outside the
\* try, so its TypeError ends the forEach and leaves render
\* calls are the calls of filter.draw so far: the index of the face and
\* whether the call threw
RECURSIVE RenderFrom(_, _, _, _, _, _, _)
RenderFrom(r, m, faces, qualitySettings, i, drawn, calls) ==
  IF i > Len(faces)
  THEN [morph |-> m, drawn |-> drawn, threw |-> FALSE, calls |-> calls]
  ELSE
    LET cull == shouldCullAnimation(faces[i], CanvasWidth, CanvasHeight)
    IN IF cull = "throw"
       THEN [morph |-> m, drawn |-> drawn, threw |-> TRUE, calls |-> calls]
       ELSE IF cull = "cull"
       THEN RenderFrom(r, m, faces, qualitySettings, i + 1, drawn, calls)
       ELSE LET d == DrawFace(r, m, faces[i], qualitySettings)
                called == Append(calls, [index |-> i, threw |-> d.threw])
            IN IF DrawErrorEscapes(d.threw)
               THEN [morph |-> d.morph, drawn |-> drawn \o d.drawn,
                     threw |-> TRUE, calls |-> called]
               ELSE RenderFrom(r, d.morph, faces, qualitySettings, i + 1,
                               drawn \o d.drawn, called)

\* FilterRenderer.render(ctx, faces, qualitySettings)
render(r, m, faces, qualitySettings) ==
  IF r.currentFilterName = "none" \/ Len(faces) = 0
  THEN [morph |-> m, drawn |-> <<>>, threw |-> FALSE, calls |-> <<>>]
  ELSE RenderFrom(r, m, faces, qualitySettings, 1, <<>>, <<>>)

(***************************************************************************)
(* PerformanceManager: the face snapshots                                  *)
(***************************************************************************)
\* !x of a snapshot: it is null or undefined
IsFalsy(x) == x.kind \in {"null", "undefined"}

\* PerformanceManager.calculateFaceMovement(newFaces): the manager after
\* the call, and whether the call threw a TypeError (.length of undefined,
\* or [0] of a nose tip that is not there)
calculateFaceMovement(p, newFaces) ==
  IF p.lastFaces.kind = "undefined" THEN [pm |-> p, threw |-> TRUE]
  ELSE IF Len(p.lastFaces.faces) = 0
  THEN [pm |-> [p EXCEPT !.lastFaces = newFaces], threw |-> FALSE]
  ELSE IF newFaces.kind = "undefined" THEN [pm |-> p, threw |-> TRUE]
  ELSE IF Len(newFaces.faces) = 0
  THEN [pm |-> [p EXCEPT !.lastFaces = newFaces], threw |-> FALSE]
  ELSE IF \E i \in 1..Min(Len(newFaces.faces), Len(p.lastFaces.faces)) :
            \/ At(newFaces.faces[i].scaledMesh, NOSE_TIP) = Undefined
            \/ At(p.lastFaces.faces[i].scaledMesh, NOSE_TIP) = Undefined
  THEN [pm |-> p, threw |-> TRUE]
  ELSE [pm |-> [p EXCEPT !.lastFaces = newFaces], threw |-> FALSE]

\* cachedPoint + (point - cachedPoint) * progress for one coordinate, the
\* progress in tenths (0.3 is 3)
BlendTowardsCached(cachedCoord, coord, progress10) ==
  coord + ((cachedCoord - coord) * progress10) \div 10

Blend(cachedCoord, coord, progress10) ==
  cachedCoord + ((coord - cachedCoord) * progress10) \div 10

\* the blend of one point
BlendPoint(cachedPoint, point, progress10) ==
  <<Blend(cachedPoint[1], point[1], progress10),
    Blend(cachedPoint[2], point[2], progress10),
    Blend(cachedPoint[3], point[3], progress10)>>

\* PerformanceManager.interpolateFaces(faces, progress): the manager after
\* the call and the faces returned.  Face i of the model is faces[i - 1].
interpolateFaces(p, faces, progress10) ==
  IF IsFalsy(p.cachedFaces) \/ Len(faces) = 0
  THEN [pm |-> [p EXCEPT !.cachedFaces = Array(faces)], faces |-> faces]
  ELSE
    LET cachedFaces == p.cachedFaces.faces
        interpolated ==
          [index \in 1..Len(faces) |->
             IF index > Len(cachedFaces) THEN faces[index]
             ELSE LET cached == cachedFaces[index]
                  IN [faces[index] EXCEPT !.scaledMesh =
                        [pointIndex \in DOMAIN faces[index].scaledMesh |->
                           IF pointIndex \notin DOMAIN cached.scaledMesh
                           THEN faces[index].scaledMesh[pointIndex]
                           ELSE BlendPoint(cached.scaledMesh[pointIndex],
                                           faces[index].scaledMesh[pointIndex],
                                           progress10)]]]
    IN [pm |-> [p EXCEPT !.cachedFaces = Array(faces)], faces |-> interpolated]

(***************************************************************************)
(* The objects after construction                                          *)
(***************************************************************************)
\* new FaceFilterApp(...): animationFrameId 0 stands for null (both are falsy,
\* and the browser's handles are positive)
AppNew == [isRunning |-> FALSE, animationFrameId |-> 0, skipFrameCounter |-> 0]

RendererNew == [currentFilterName |-> "none"]

\* new MorphFilter(config): the constructor's literals are MORPH.HIGH's
MorphNew ==
  [intensity |-> 100, eyeScaleFactor |-> 250, mouthScaleFactor |-> 220,
   faceSlimFactor |-> 85, jawReductionFactor |-> 90]

\* frame is the tick that cleared the canvas last, drawn what the filters
\* put on it since, faces the snapshot that tick had for the renderer
CanvasNew == [frame |-> 0, drawn |-> <<>>, faces |-> <<>>]

NoProbe == [op |-> "none"]

(***************************************************************************)
(* The performance controller alone: any sequence of updateFPS calls.      *)
(* The tier at the first call is whatever detectPerformance left.          *)
(***************************************************************************)
\* the app constructed and not started
AppIdle ==
  /\ app = AppNew
  /\ awaiting = 0
  /\ rafQueue = {}
  /\ renderer = RendererNew
  /\ morph = MorphNew
  /\ canvas = CanvasNew

PerfInit ==
  /\ pm \in {[PerformanceManagerNew EXCEPT !.performanceLevel = t] : t \in Tiers}
  /\ AppIdle
  /\ probe = NoProbe

PerfUpdateFPS ==
  /\ pm.frameCount < MaxFrames
  /\ \E deltaTime \in DeltaTimes : pm' = updateFPS(pm, deltaTime)
  /\ UNCHANGED <<app, awaiting, rafQueue, renderer, morph, canvas, probe>>

PerfNext == PerfUpdateFPS

SpecPerf == PerfInit /\ [][PerfNext]_vars

(***************************************************************************)
(* The performance manager's methods called in any order: updateFPS,       *)
(* manageTensorMemory and getQualitySettings.  probe is the last call:     *)
(* the frame interval or the tensor count given, whether                   *)
(* tf.disposeVariables() was called, the settings returned.                *)
(***************************************************************************)
ManagerCall(op, deltaTime, numTensors, disposed, settings) ==
  [op |-> op, deltaTime |-> deltaTime, numTensors |-> numTensors,
   disposed |-> disposed, settings |-> settings]

ManagerInit ==
  /\ pm \in {[PerformanceManagerNew EXCEPT !.performanceLevel = t] : t \in Tiers}
  /\ AppIdle
  /\ probe = ManagerCall("none", 0, 0, FALSE, <<>>)

ManagerUpdateFPS ==
  /\ pm.frameCount < MaxFrames
  /\ \E deltaTime \in DeltaTimes :
       /\ pm' = updateFPS(pm, deltaTime)
       /\ probe' = ManagerCall("updateFPS", deltaTime, 0, FALSE, <<>>)
  /\ UNCHANGED <<app, awaiting, rafQueue, renderer, morph, canvas>>

ManagerMemory ==
  /\ \E numTensors \in TensorCounts :
       /\ pm' = manageTensorMemory(pm, numTensors)
       /\ probe' = ManagerCall("manageTensorMemory", 0, numTensors,
                               DisposesVariables(pm'), <<>>)
  /\ UNCHANGED <<app, awaiting, rafQueue, renderer, morph, canvas>>

ManagerQuality ==
  /\ probe' = ManagerCall("getQualitySettings", 0, 0, FALSE,
                          <<getQualitySettings(pm)>>)
  /\ UNCHANGED <<pm, app, awaiting, rafQueue, renderer, morph, canvas>>

ManagerNext == ManagerUpdateFPS \/ ManagerMemory \/ ManagerQuality

SpecManager == ManagerInit /\ [][ManagerNext]_vars

(***************************************************************************)
(* PerformanceManager.init on any device and with any item in the cache,   *)
(* then updateFPS calls.  probe holds the device, the cache item, the      *)
(* duration the test loop would take and what detectPerformance did.       *)
(***************************************************************************)
MaxInitFrames == 31

\* Date.now() at the call
Now == 100000000

\* "ultra" stands for any level that is not a tier's name
CachedLevels == Tiers \cup {"ultra"}

\* fresh, one ms short of 24 hours old, 24 hours old, older, and stamped
\* by a clock that was ahead
CachedTimestamps ==
  {Now, Now - CACHE_DURATION_MS + 1, Now - CACHE_DURATION_MS,
   Now - CACHE_DURATION_MS - 1, Now + 1000}

CacheItems ==
  {NoItem, CacheItem("garbage", "", 0, ""), CacheItem("null", "", 0, ""),
   CacheItem("empty", "", 0, "")}
  \cup {CacheItem("record", level, timestamp, agent.name) :
          level \in CachedLevels, timestamp \in CachedTimestamps,
          agent \in {a \in UserAgents : a.name \in {"chrome-windows", "safari-iphone-os17"}}}

TestDurations == {5, 10, 12, 15, 20, 30, 35, 40, 50}

DetectInit ==
  /\ pm = PerformanceManagerNew
  /\ AppIdle
  /\ probe \in {[op |-> "detectPerformance", done |-> FALSE, cached |-> cached,
                 agent |-> agent, testDuration |-> testDuration,
                 setItemThrows |-> setItemThrows, probed |-> FALSE,
                 raw |-> "", wrote |-> FALSE, stored |-> cached] :
                  cached \in CacheItems, agent \in UserAgents,
                  testDuration \in TestDurations, setItemThrows \in BOOLEAN}

\* await this.performanceManager.init()
DetectPerformance ==
  /\ probe.op = "detectPerformance"
  /\ ~probe.done
  /\ LET r == detectPerformance(pm, probe.cached, probe.agent, Now,
                                probe.testDuration, probe.setItemThrows)
     IN /\ pm' = r.pm
        /\ probe' = [probe EXCEPT !.done = TRUE, !.probed = r.probed,
                                  !.raw = r.raw, !.wrote = r.wrote,
                                  !.stored = r.stored]
  /\ UNCHANGED <<app, awaiting, rafQueue, renderer, morph, canvas>>

DetectUpdateFPS ==
  /\ probe.op = "detectPerformance"
  /\ probe.done
  /\ pm.frameCount < MaxInitFrames
  /\ \E deltaTime \in LoopDeltaTimes :
       pm' = IF updateFPSThrows(pm)
             THEN [pm EXCEPT !.frameCount = pm.frameCount + 1]
             ELSE updateFPS(pm, deltaTime)
  /\ UNCHANGED <<app, awaiting, rafQueue, renderer, morph, canvas, probe>>

DetectNext == DetectPerformance \/ DetectUpdateFPS

SpecDetect == DetectInit /\ [][DetectNext]_vars

(***************************************************************************)
(* The render loop: FaceFilterApp.start, stop and animate, the animation   *)
(* frame callbacks, the detector's answers and the filter buttons.         *)
(***************************************************************************)
Init == PerfInit

\* requestAnimationFrame's handle: one no pending callback has and the app
\* does not hold (the browser's handles only ever need to be distinct)
FreshHandle(a, q) ==
  CHOOSE id \in 1..(MaxChains + 2) : id \notin q /\ id # a.animationFrameId

\* this.animationFrameId = requestAnimationFrame(() => this.animate())
ScheduleNext(a, q) ==
  LET id == FreshHandle(a, q)
  IN /\ app' = [a EXCEPT !.animationFrameId = id]
     /\ rafQueue' = q \cup {id}

CatchSchedulesNothing(a, q) ==
  /\ app' = a
  /\ rafQueue' = q

\* the catch of animate: `Continue despite errors`
CatchSchedule(a, q) == ScheduleNext(a, q)

\* stats.frameCount % stats.cleanupInterval === 0, the condition of the
\* memory management at the end of animate: frameCount % undefined is NaN
\* and NaN === 0 is false
CleanupDue(stats) ==
  IF "cleanupInterval" \in DOMAIN stats
  THEN stats.frameCount % stats.cleanupInterval = 0
  ELSE FALSE

\* animate from `Clear canvas` to its end, with the manager p, the app a,
\* the pending callbacks q and the faces of this tick
FinishTick(p, a, q, faces) ==
  LET hasFaces == ~IsFalsy(faces) /\ Len(faces.faces) > 0
      out == IF hasFaces
             THEN render(renderer, morph, faces.faces, getQualitySettings(p))
             ELSE [morph |-> morph, drawn |-> <<>>, threw |-> FALSE,
                   calls |-> <<>>]
      stats == getStats(p)
      cleanup == CleanupDue(stats)
  IN /\ canvas' = [frame |-> p.frameCount, drawn |-> out.drawn,
                    faces |-> IF hasFaces THEN faces.faces ELSE <<>>]
     /\ morph' = out.morph
     /\ IF out.threw
        THEN pm' = p /\ CatchSchedule(a, q)
        ELSE /\ IF cleanup
                THEN \E n \in TensorCounts : pm' = manageTensorMemory(p, n)
                ELSE pm' = p
             /\ ScheduleNext(a, q)

\* animate() up to its first suspension or its end, called with the app a
\* (after the caller's own assignments) and the pending callbacks q; the
\* model begins no more than maxTicks ticks, and deltaTimes are the frame
\* intervals the device can show
AnimateWith(a, q, maxTicks, deltaTimes) ==
  IF ~a.isRunning
  THEN /\ app' = a
       /\ rafQueue' = q
       /\ UNCHANGED <<pm, awaiting, morph, canvas>>
  ELSE
    /\ pm.frameCount < maxTicks
    /\ \E deltaTime \in deltaTimes :
         LET p1 == updateFPS(pm, deltaTime)
             shouldSkip == shouldSkipFrame(p1, a.skipFrameCounter)
             a1 == [a EXCEPT !.skipFrameCounter = a.skipFrameCounter + 1]
         IN IF ~shouldSkip
            THEN \* faces = await this.modelLoader.detectFaces(this.video)
                 /\ awaiting' = awaiting + 1
                 /\ pm' = p1
                 /\ app' = a1
                 /\ rafQueue' = q
                 /\ UNCHANGED <<morph, canvas>>
            ELSE LET r == interpolateFaces(p1,
                            IF IsFalsy(p1.cachedFaces) THEN <<>>
                            ELSE p1.cachedFaces.faces, 3)
                 IN /\ FinishTick(r.pm, a1, q, Array(r.faces))
                    /\ UNCHANGED awaiting

Animate(a, q, maxTicks) == AnimateWith(a, q, maxTicks, LoopDeltaTimes)

\* FaceFilterApp.start()
StartWithin(maxTicks) ==
  /\ awaiting + Cardinality(rafQueue) < MaxChains
  /\ IF app.isRunning
     THEN UNCHANGED <<pm, app, awaiting, rafQueue, morph, canvas>>
     ELSE Animate([app EXCEPT !.isRunning = TRUE], rafQueue, maxTicks)
  /\ UNCHANGED <<renderer, probe>>

Start == StartWithin(MaxTicks)

\* FaceFilterApp.stop()
Stop ==
  /\ IF ~app.isRunning
     THEN UNCHANGED <<app, rafQueue>>
     ELSE IF app.animationFrameId # 0
     THEN /\ rafQueue' = rafQueue \ {app.animationFrameId}
          /\ app' = [app EXCEPT !.isRunning = FALSE, !.animationFrameId = 0]
     ELSE /\ rafQueue' = rafQueue
          /\ app' = [app EXCEPT !.isRunning = FALSE]
  /\ UNCHANGED <<pm, awaiting, renderer, morph, canvas, probe>>

\* the browser runs a requested animation-frame callback: () => this.animate()
RafFireWithin(maxTicks) ==
  /\ \E id \in rafQueue : Animate(app, rafQueue \ {id}, maxTicks)
  /\ UNCHANGED <<renderer, probe>>

RafFire == RafFireWithin(MaxTicks)

\* detectFaces settles and a suspended animate() goes on: the detector's
\* faces, [] when it threw (detectFaces catches), or undefined
DetectSettles(faces) ==
  /\ awaiting > 0
  /\ awaiting' = awaiting - 1
  /\ LET moved == calculateFaceMovement(pm, faces)
     IN IF moved.threw
        THEN /\ pm' = pm
             /\ CatchSchedule(app, rafQueue)
             /\ UNCHANGED <<morph, canvas>>
        ELSE FinishTick([moved.pm EXCEPT !.cachedFaces = faces],
                        app, rafQueue, faces)
  /\ UNCHANGED renderer

DetectResolve ==
  /\ \E faces \in {Array(fs) : fs \in DetectorOutputs} \cup {UndefinedFaces} :
       DetectSettles(faces)
  /\ UNCHANGED probe

\* a filter button: UIControls.selectFilter(filterName)
SelectFilter ==
  /\ \E filterName \in FilterNames \cup {"none", "no_such_filter"} :
       renderer' = setFilter(renderer, filterName)
  /\ UNCHANGED <<pm, app, awaiting, rafQueue, morph, canvas, probe>>

Next == Start \/ Stop \/ RafFire \/ DetectResolve \/ SelectFilter

Spec == Init /\ [][Next]_vars

(***************************************************************************)
(* The loop started once and left running: stop() is not called.  The      *)
(* browser runs every requested callback and the detector settles every    *)
(* call, which is the fairness stated here.                                *)
(***************************************************************************)
LoopStart == StartWithin(MaxLoopTicks)

LoopRafFire == RafFireWithin(MaxLoopTicks)

LoopNext == LoopStart \/ LoopRafFire \/ DetectResolve \/ SelectFilter

SpecLoop ==
  /\ Init
  /\ [][LoopNext]_vars
  /\ WF_vars(LoopStart)
  /\ WF_vars(LoopRafFire)
  /\ WF_vars(DetectResolve)

(***************************************************************************)
(* The loop on a slow device, every frame 100 ms after the one before,     *)
(* with the detector in the state: probe is the detection that settled     *)
(* last, what model.estimateFaces did and the snapshot the cache held when *)
(* that tick replaced it.                                                  *)
(***************************************************************************)
SlowDeltaTimes == {100}

\* no face, a face, the face after it moved, and a second face next to it
WatchedOutputs == {<<>>, <<GoodFace>>, <<FarFace>>, <<FarFace, GoodFace>>}

\* model.estimateFaces(...) rejects, or resolves to a value
DetectorOutcomes ==
  {[kind |-> "throws", value |-> UndefinedFaces]}
  \cup {[kind |-> "returns", value |-> v] :
          v \in {Array(fs) : fs \in WatchedOutputs} \cup {UndefinedFaces}}

\* ModelLoader.detectFaces(video), the model loaded and the video playing,
\* on a browser that is not Safari: what the promise resolves to
detectFaces(outcome) ==
  IF outcome.kind = "throws" THEN Array(<<>>) ELSE outcome.value

WatchInit ==
  /\ pm = PerformanceManagerNew
  /\ AppIdle
  /\ probe = [op |-> "detectFaces",
              outcome |-> [kind |-> "none", value |-> NullFaces],
              previous |-> NullFaces]

WatchStart ==
  /\ awaiting + Cardinality(rafQueue) < MaxChains
  /\ IF app.isRunning
     THEN UNCHANGED <<pm, app, awaiting, rafQueue, morph, canvas>>
     ELSE AnimateWith([app EXCEPT !.isRunning = TRUE], rafQueue,
                      MaxLoopTicks, SlowDeltaTimes)
  /\ UNCHANGED <<renderer, probe>>

WatchRafFire ==
  /\ \E id \in rafQueue :
       AnimateWith(app, rafQueue \ {id}, MaxLoopTicks, SlowDeltaTimes)
  /\ UNCHANGED <<renderer, probe>>

WatchDetect ==
  \E outcome \in DetectorOutcomes :
    LET faces == detectFaces(outcome)
    IN /\ DetectSettles(faces)
       /\ probe' = [op |-> "detectFaces", outcome |-> outcome,
                    previous |-> IF calculateFaceMovement(pm, faces).threw
                                 THEN probe.previous
                                 ELSE pm.cachedFaces]

WatchNext == WatchStart \/ WatchRafFire \/ WatchDetect \/ SelectFilter

SpecWatch == WatchInit /\ [][WatchNext]_vars

(***************************************************************************)
(* FilterRenderer.render called on its own, with any filter selected and   *)
(* any list of up to MaxRenderFaces faces, whole, cut short or off the     *)
(* canvas.  probe holds the faces given and what the call did.             *)
(***************************************************************************)
MaxRenderFaces == 3

RenderFilters == {"none", "bouncing_balls", "twinkling_stars", "face_morph"}

RECURSIVE ListsOf(_, _)
ListsOf(faces, length) ==
  IF length = 0 THEN {<<>>}
  ELSE LET shorter == ListsOf(faces, length - 1)
       IN shorter \cup {Append(l, f) : l \in {x \in shorter : Len(x) = length - 1},
                                      f \in faces}

RenderInit ==
  /\ pm \in {[PerformanceManagerNew EXCEPT !.performanceLevel = t] : t \in Tiers}
  /\ app = AppNew
  /\ awaiting = 0
  /\ rafQueue = {}
  /\ renderer \in {[currentFilterName |-> f] : f \in RenderFilters}
  /\ morph = MorphNew
  /\ canvas = CanvasNew
  /\ probe \in {[op |-> "render", done |-> FALSE, faces |-> faces,
                 result |-> [morph |-> MorphNew, drawn |-> <<>>,
                             threw |-> FALSE, calls |-> <<>>]] :
                  faces \in ListsOf({GoodFace, ShortFace, MidFace, FarFace},
                                    MaxRenderFaces)}

\* this.filterRenderer.render(this.ctx, faces, qualitySettings)
RenderCall ==
  /\ probe.op = "render"
  /\ ~probe.done
  /\ LET out == render(renderer, morph, probe.faces, getQualitySettings(pm))
     IN /\ probe' = [probe EXCEPT !.done = TRUE, !.result = out]
        /\ morph' = out.morph
        /\ canvas' = [canvas EXCEPT !.drawn = out.drawn, !.faces = probe.faces]
  /\ UNCHANGED <<pm, app, awaiting, rafQueue, renderer>>

RenderNext == RenderCall

SpecRender == RenderInit /\ [][RenderNext]_vars

(***************************************************************************)
(* The ticks of the loop over many samples: of each tick only its          *)
(* beginning, updateFPS, the skip decision and the counter, a tick         *)
(* beginning after the one before it has ended.  probe counts the skipped  *)
(* ticks since the last detection tick.                                    *)
(***************************************************************************)
\* animate from its first line to this.skipFrameCounter++
TickDecision(p, a, deltaTime) ==
  LET p1 == updateFPS(p, deltaTime)
  IN [pm |-> p1,
      shouldSkip |-> shouldSkipFrame(p1, a.skipFrameCounter),
      app |-> [a EXCEPT !.skipFrameCounter = a.skipFrameCounter + 1]]

CadenceInit ==
  /\ pm \in {[PerformanceManagerNew EXCEPT !.performanceLevel = t] : t \in Tiers}
  /\ AppIdle
  /\ probe = [op |-> "ticks", skipped |-> 0]

CadenceTickOf(a) ==
  /\ pm.frameCount < MaxFrames
  /\ \E deltaTime \in DeltaTimes :
       LET t == TickDecision(pm, a, deltaTime)
       IN /\ pm' = t.pm
          /\ app' = t.app
          /\ probe' = [probe EXCEPT !.skipped =
                         IF t.shouldSkip THEN probe.skipped + 1 ELSE 0]
  /\ UNCHANGED <<awaiting, rafQueue, renderer, morph, canvas>>

\* start(): the first tick
CadenceStart ==
  /\ ~app.isRunning
  /\ CadenceTickOf([app EXCEPT !.isRunning = TRUE])

\* the animation-frame callback: the next tick
CadenceTick ==
  /\ app.isRunning
  /\ CadenceTickOf(app)

CadenceNext == CadenceStart \/ CadenceTick

SpecCadence == CadenceInit /\ [][CadenceNext]_vars

(***************************************************************************)
(* The filter buttons: UIControls.selectFilter called with any name, the   *)
(* change callback set or not.  probe is the UIControls object (the        *)
(* callback set, the button marked active) with the last call, what        *)
(* setFilter returned to it, and the number of calls and of callbacks.     *)
(***************************************************************************)
MaxSelects == 5

\* btn.dataset.filter: the registered names, 'none', and names no filter
\* has (a property of every object among them)
SelectNames ==
  DOMAIN filterDefinitions \cup {"none", "no_such_filter", "", "constructor"}

\* UIControls.selectFilter(filterName) on the controls ui and the renderer r
selectFilter(ui, r, filterName) ==
  LET returned == setFilterReturns(r, filterName)
  IN [renderer |-> setFilter(r, filterName),
      ui |-> [ui EXCEPT
                !.name = filterName,
                !.returned = returned,
                !.calls = ui.calls + 1,
                !.active = IF returned THEN filterName ELSE ui.active,
                !.fired = IF returned /\ ui.onFilterChange
                          THEN ui.fired + 1 ELSE ui.fired]]

FilterInit ==
  /\ pm = PerformanceManagerNew
  /\ AppIdle
  /\ probe = [op |-> "selectFilter", name |-> "", returned |-> FALSE,
              calls |-> 0, fired |-> 0, onFilterChange |-> FALSE,
              active |-> "none"]

\* UIControls.setFilterChangeCallback(callback)
FilterSetCallback ==
  /\ ~probe.onFilterChange
  /\ probe' = [probe EXCEPT !.onFilterChange = TRUE]
  /\ UNCHANGED <<pm, app, awaiting, rafQueue, renderer, morph, canvas>>

\* a click on a filter button
FilterSelect ==
  /\ probe.calls < MaxSelects
  /\ \E filterName \in SelectNames :
       LET out == selectFilter(probe, renderer, filterName)
       IN /\ renderer' = out.renderer
          /\ probe' = out.ui
  /\ UNCHANGED <<pm, app, awaiting, rafQueue, morph, canvas>>

FilterNext == FilterSetCallback \/ FilterSelect

SpecFilter == FilterInit /\ [][FilterNext]_vars

(***************************************************************************)
(* The capture button: PhotoCapture.capture started by clicks, each call   *)
(* that passes the guard suspended at its await until canvas.toBlob calls  *)
(* back.  probe is the PhotoCapture object with the page around it: the    *)
(* video's width, the calls suspended at the await, the canvases and       *)
(* downloads made, the status text, and the timers not yet fired.          *)
(***************************************************************************)
MaxClicks == 4

\* video.videoWidth: 0 until the video has a frame
VideoWidths == {0, 640}

PhotoCaptureNew ==
  [op |-> "capture", isCapturing |-> FALSE, videoWidth |-> 0, clicks |-> 0,
   awaitingBlob |-> 0, canvases |-> 0, downloads |-> 0, statuses |-> 0,
   statusText |-> "Ready", flash |-> FALSE, thumbnail |-> FALSE,
   timers |-> [status |-> 0, flash |-> 0, thumbnail |-> 0]]

\* a guard that looks at the video only
captureRefusedNoVideo(c) == c.videoWidth = 0

\* capture, line 34: the call returns at once
captureRefused(c) == c.isCapturing \/ c.videoWidth = 0

\* PhotoCapture.updateStatus(message)
updateStatus(c, message) ==
  [c EXCEPT !.statusText = message, !.statuses = c.statuses + 1,
            !.timers.status = c.timers.status + 1]

\* capture, the catch and finally blocks
captureFailed(c) ==
  [updateStatus(c, "Failed to capture photo") EXCEPT !.isCapturing = FALSE]

\* capture up to its await; drawFails: getContext or drawImage throws
capture(c, drawFails) ==
  LET clicked == [c EXCEPT !.clicks = c.clicks + 1]
      started == [clicked EXCEPT !.isCapturing = TRUE,
                                 !.canvases = c.canvases + 1]
  IN IF captureRefused(c) THEN clicked
     ELSE IF drawFails THEN captureFailed(started)
     ELSE [started EXCEPT !.awaitingBlob = c.awaitingBlob + 1]

\* capture from its await on; blob is what canvas.toBlob hands over
\* ("null" when the image cannot be made: createObjectURL throws)
captureResume(c, blob) ==
  LET resumed == [c EXCEPT !.awaitingBlob = c.awaitingBlob - 1]
      saved == [resumed EXCEPT !.downloads = c.downloads + 1,
                               !.flash = TRUE,
                               !.thumbnail = TRUE,
                               !.timers.flash = c.timers.flash + 1,
                               !.timers.thumbnail = c.timers.thumbnail + 1]
  IN IF blob = "null" THEN captureFailed(resumed)
     ELSE [updateStatus(saved, "Photo captured!") EXCEPT !.isCapturing = FALSE]

CaptureInit ==
  /\ pm = PerformanceManagerNew
  /\ AppIdle
  /\ probe = PhotoCaptureNew

\* the video gets its first frame, or the stream ends
CaptureVideo ==
  /\ \E width \in VideoWidths \ {probe.videoWidth} :
       probe' = [probe EXCEPT !.videoWidth = width]
  /\ UNCHANGED <<pm, app, awaiting, rafQueue, renderer, morph, canvas>>

\* a click on the capture button
CaptureClick ==
  /\ probe.clicks < MaxClicks
  /\ \E drawFails \in BOOLEAN : probe' = capture(probe, drawFails)
  /\ UNCHANGED <<pm, app, awaiting, rafQueue, renderer, morph, canvas>>

\* canvas.toBlob calls back and the suspended call runs to its end
CaptureBlob ==
  /\ probe.awaitingBlob > 0
  /\ \E blob \in {"png", "null"} : probe' = captureResume(probe, blob)
  /\ UNCHANGED <<pm, app, awaiting, rafQueue, renderer, morph, canvas>>

\* one of the setTimeout callbacks of capture, showFlash, updateStatus
CaptureTimer ==
  /\ \E which \in {"status", "flash", "thumbnail"} :
       /\ probe.timers[which] > 0
       /\ probe' = [probe EXCEPT
                      !.timers[which] = probe.timers[which] - 1,
                      !.statusText = IF which = "status" THEN "Ready" ELSE @,
                      !.flash = IF which = "flash" THEN FALSE ELSE @,
                      !.thumbnail = IF which = "thumbnail" THEN FALSE ELSE @]
  /\ UNCHANGED <<pm, app, awaiting, rafQueue, renderer, morph, canvas>>

CaptureNext == CaptureVideo \/ CaptureClick \/ CaptureBlob \/ CaptureTimer

SpecCapture == CaptureInit /\ [][CaptureNext]_vars

(***************************************************************************)
(* Camera.accessCamera: one call, on every platform, with every outcome of *)
(* each request for a stream.  probe is the call: the platform, the        *)
(* constraints object, the loop's attempt, where the call stands, the      *)
(* requests made and how each attempt went, and what the call returned or  *)
(* threw.                                                                  *)
(***************************************************************************)
RETRY_ATTEMPTS == 3

\* browserDetector.isIOS, isSafari, and which getUserMedia the browser has
Platforms ==
  [isIOS : BOOLEAN, isSafari : BOOLEAN,
   getUserMedia : {"mediaDevices", "webkit", "none"}]

\* browserDetector.getCameraConstraints(): the ideal width and height
getCameraConstraints(platform) ==
  IF platform.isIOS THEN [width |-> 320, height |-> 240]
  ELSE [width |-> 640, height |-> 480]

\* Camera.degradeConstraints(constraints); no constraints has a frameRate
degradeConstraints(constraints) ==
  [width |-> IF constraints.width # 0
             THEN Max(240, constraints.width - 80) ELSE constraints.width,
   height |-> IF constraints.height # 0
              THEN Max(180, constraints.height - 60) ELSE constraints.height]

NoStream == "null"

NoError == [attempt |-> 0, message |-> "none"]

\* the error of line 82
FailedAfterAttempts ==
  [attempt |-> 0,
   message |-> "Failed to obtain camera stream after multiple attempts"]

\* what a request for a stream can do: resolve to a stream, resolve to no
\* stream, reject
RequestOutcomes == {"stream", "null", "rejects"}

\* the for statement after attempt++: another round, or line 82
NextAttempt(c) ==
  IF c.attempt + 1 <= RETRY_ATTEMPTS
  THEN [c EXCEPT !.attempt = c.attempt + 1, !.at = "try"]
  ELSE [c EXCEPT !.attempt = c.attempt + 1, !.at = "threw",
                 !.thrown = FailedAfterAttempts]

\* a catch block that has Safari wait and try again after every attempt
catchErrorAlwaysRetries(c, error) ==
  IF c.platform.isSafari
  THEN [c EXCEPT !.constraints = degradeConstraints(c.constraints),
                 !.at = "delay"]
  ELSE IF c.attempt >= RETRY_ATTEMPTS
  THEN [c EXCEPT !.at = "threw", !.thrown = error]
  ELSE NextAttempt(c)

\* accessCamera, the catch block (lines 71-79)
catchError(c, error) ==
  IF c.platform.isSafari /\ c.attempt < RETRY_ATTEMPTS
  THEN [c EXCEPT !.constraints = degradeConstraints(c.constraints),
                 !.at = "delay"]
  ELSE IF c.attempt >= RETRY_ATTEMPTS
  THEN [c EXCEPT !.at = "threw", !.thrown = error]
  ELSE NextAttempt(c)

\* accessCamera, the try block up to its await (lines 54-66)
tryRequest(c) ==
  IF c.platform.getUserMedia = "none"
  THEN catchError([c EXCEPT !.outcomes = Append(c.outcomes, "unsupported")],
                  [attempt |-> c.attempt,
                   message |-> "Camera access is not supported in this browser"])
  ELSE [c EXCEPT !.requests = c.requests + 1, !.at = "request"]

\* accessCamera from the await on (lines 58-79)
requestSettles(c, outcome) ==
  LET settled == [c EXCEPT !.outcomes = Append(c.outcomes, outcome)]
  IN IF outcome = "rejects"
     THEN catchError(settled, [attempt |-> c.attempt, message |-> "rejected"])
     ELSE IF outcome = "stream"
     THEN [settled EXCEPT !.at = "returned", !.stream = "stream"]
     ELSE NextAttempt(settled)

CameraCalls ==
  {[op |-> "accessCamera", platform |-> platform,
    constraints |-> getCameraConstraints(platform), attempt |-> 1,
    at |-> "try", requests |-> 0, outcomes |-> <<>>, stream |-> NoStream,
    thrown |-> NoError] : platform \in Platforms}

CameraInit ==
  /\ pm = PerformanceManagerNew
  /\ AppIdle
  /\ probe \in CameraCalls

\* a round of the loop starts
CameraTry ==
  /\ probe.at = "try"
  /\ probe' = tryRequest(probe)
  /\ UNCHANGED <<pm, app, awaiting, rafQueue, renderer, morph, canvas>>

\* the request for a stream settles
CameraSettles ==
  /\ probe.at = "request"
  /\ \E outcome \in RequestOutcomes : probe' = requestSettles(probe, outcome)
  /\ UNCHANGED <<pm, app, awaiting, rafQueue, renderer, morph, canvas>>

\* the timer of this.delay(RETRY_DELAY_MS) fires
CameraDelayed ==
  /\ probe.at = "delay"
  /\ probe' = NextAttempt(probe)
  /\ UNCHANGED <<pm, app, awaiting, rafQueue, renderer, morph, canvas>>

CameraNext == CameraTry \/ CameraSettles \/ CameraDelayed

SpecCamera == CameraInit /\ [][CameraNext]_vars

\* every step of the call is taken
FairCamera == SpecCamera /\ WF_vars(CameraNext)

(***************************************************************************)
(* interpolateFaces called on its own: any cached snapshot (or none) and   *)
(* any new snapshot of up to MaxFaces faces of up to MaxPoints points.     *)
(* Point j of a mesh is its first point moved 10 pixels to the right j     *)
(* times, so that the points of a mesh differ.                             *)
(***************************************************************************)
MaxFaces == 2
MaxPoints == 2

MeshOf(length, first) ==
  [j \in 0..(length - 1) |-> <<first[1] + 100 * j, first[2], first[3]>>]

FacesOf(firstPoints) ==
  {[id |-> "face", scaledMesh |-> MeshOf(n, first)] :
     n \in 1..MaxPoints, first \in firstPoints}

SnapshotsOf(firstPoints) ==
  UNION {[1..n -> FacesOf(firstPoints)] : n \in 0..MaxFaces}

CachedFirstPoints == {<<0, 0, 0>>, <<1000, 2000, -300>>}
NewFirstPoints == {<<100, 200, 300>>, <<-500, 0, 4000>>}

InterpInit ==
  /\ pm \in {[PerformanceManagerNew EXCEPT !.cachedFaces = c] :
               c \in {Array(a) : a \in SnapshotsOf(CachedFirstPoints)}
                     \cup {NullFaces}}
  /\ AppIdle
  /\ probe \in {[op |-> "interpolateFaces", done |-> FALSE, faces |-> b,
                 cached |-> NullFaces, result |-> <<>>] :
                  b \in SnapshotsOf(NewFirstPoints)}

\* interpolateFaces(faces, 0.3)
InterpCall ==
  /\ probe.op = "interpolateFaces"
  /\ ~probe.done
  /\ LET r == interpolateFaces(pm, probe.faces, 3)
     IN /\ pm' = r.pm
        /\ probe' = [probe EXCEPT !.done = TRUE, !.cached = pm.cachedFaces,
                                  !.result = r.faces]
  /\ UNCHANGED <<app, awaiting, rafQueue, renderer, morph, canvas>>

InterpNext == InterpCall

SpecInterp == InterpInit /\ [][InterpNext]_vars

(***************************************************************************)
(* calculateProcessingRegion called on its own: eye centers inside, on the *)
(* edge of and outside the canvas, faces of no, some and large extent.     *)
(***************************************************************************)
\* in whole pixels
EyeCenterXs == {-200, 0, 320, 640, 1000}
EyeCenterYs == {-200, 0, 200, 480, 900}
FaceExtents == {0, 60, 200}
CanvasSizes == {<<640, 480>>, <<320, 240>>}

RegionInit ==
  /\ pm = PerformanceManagerNew
  /\ AppIdle
  /\ probe \in {[op |-> "calculateProcessingRegion", done |-> FALSE,
                 eyeCenter |-> <<x, y>>, faceWidth |-> w, faceHeight |-> h,
                 canvasWidth |-> c[1], canvasHeight |-> c[2],
                 performanceLevel |-> t,
                 region |-> [minX |-> 0, minY |-> 0, width |-> 0, height |-> 0]] :
                  x \in EyeCenterXs, y \in EyeCenterYs,
                  w \in FaceExtents, h \in FaceExtents,
                  c \in CanvasSizes, t \in Tiers}

\* the call, with the pixels turned into tenths of a pixel and the eye
\* center doubled
RegionCall ==
  /\ probe.op = "calculateProcessingRegion"
  /\ ~probe.done
  /\ probe' = [probe EXCEPT !.done = TRUE,
                 !.region = calculateProcessingRegion(
                    <<20 * probe.eyeCenter[1], 20 * probe.eyeCenter[2]>>,
                    10 * probe.faceWidth, 10 * probe.faceHeight,
                    probe.canvasWidth, probe.canvasHeight,
                    probe.performanceLevel)]
  /\ UNCHANGED <<pm, app, awaiting, rafQueue, renderer, morph, canvas>>

RegionNext == RegionCall

SpecRegion == RegionInit /\ [][RegionNext]_vars

(***************************************************************************)
(* bilinearSample called on its own: every buffer of up to MaxSampleSide   *)
(* by MaxSampleSide pixels over two pixel values, sampled at every half    *)
(* pixel from one pixel outside the buffer on.                             *)
(***************************************************************************)
MaxSampleSide == 2

\* [R, G, B, A]: a transparent pixel with a zero channel, a translucent one
SamplePixels == {<<0, 20, 255, 0>>, <<200, 0, 50, 128>>}

\* the Uint8ClampedArray of a width x height image whose pixels are given
\* row by row
BufferOf(pixels) ==
  [index \in 0..(4 * Len(pixels) - 1) |->
     pixels[(index \div 4) + 1][(index % 4) + 1]]

SampleInit ==
  /\ pm = PerformanceManagerNew
  /\ AppIdle
  /\ probe \in UNION {
              {[op |-> "bilinearSample", done |-> FALSE,
                imageData |-> BufferOf(pixels), x2 |-> x2, y2 |-> y2,
                width |-> w, height |-> h, result |-> <<>>] :
                 pixels \in [1..(w * h) -> SamplePixels],
                 x2 \in -2..(2 * w + 1), y2 \in -2..(2 * h + 1)} :
              w \in 1..MaxSampleSide, h \in 1..MaxSampleSide}

SampleCall ==
  /\ probe.op = "bilinearSample"
  /\ ~probe.done
  /\ probe' = [probe EXCEPT !.done = TRUE,
                 !.result = bilinearSample(probe.imageData, probe.x2, probe.y2,
                                           probe.width, probe.height)]
  /\ UNCHANGED <<pm, app, awaiting, rafQueue, renderer, morph, canvas>>

SampleNext == SampleCall

SpecSample == SampleInit /\ [][SampleNext]_vars

(***************************************************************************)
(* inverseTransformPoint called on its own: a filter with the parameters   *)
(* of a tier, or with these and no intensity, a face and a point of a grid *)
(* that has the eye and mouth centers, points near them and points outside *)
(* every region.                                                           *)
(***************************************************************************)
\* the head turned to its right: the corner of the left eye that stands for
\* the eye center is near the middle of the jaw line
TurnedMesh ==
  (NOSE_TIP :> <<2800, 2600, 0>>) @@ (FOREHEAD_CENTER :> <<3000, 1400, 0>>) @@
  (LEFT_EYE :> <<2400, 2000, 0>>) @@ (RIGHT_EYE :> <<3900, 2000, 0>>) @@
  (LEFT_MOUTH :> <<2500, 3200, 0>>) @@ (RIGHT_MOUTH :> <<3300, 3200, 0>>) @@
  (LEFT_CHEEK :> <<2200, 2600, 0>>) @@ (RIGHT_CHEEK :> <<3800, 2600, 0>>) @@
  (LEFT_EYE_INNER :> <<2900, 2000, 0>>) @@
  (FACE_LEFT :> <<1800, 3000, 0>>) @@ (FACE_RIGHT :> <<4000, 3000, 0>>) @@
  (CHIN_TIP :> <<3000, 3800, 0>>) @@
  (MOUTH_TOP_CENTER :> <<2900, 3100, 0>>) @@
  (MOUTH_BOTTOM_CENTER :> <<2900, 3300, 0>>)

TurnedFace == [id |-> "turned", scaledMesh |-> TurnedMesh]

\* every landmark at one point: a face of no extent
PointFace ==
  [id |-> "point",
   scaledMesh |-> [i \in DOMAIN FullMesh |-> <<3200, 2400, 0>>]]

\* the whole face with the inner corner of the left eye straight below
\* its outer corner: an eye region of no width
NarrowEyeFace ==
  [id |-> "narroweye",
   scaledMesh |-> [i \in DOMAIN FullMesh |->
                     IF i = LEFT_EYE_INNER THEN <<2200, 2100, 0>>
                     ELSE FullMesh[i]]]

\* the whole face with the mouth closed to a vertical line
NarrowMouthFace ==
  [id |-> "narrowmouth",
   scaledMesh |-> [i \in DOMAIN FullMesh |->
                     IF i \in {MOUTH_LEFT_CORNER, MOUTH_RIGHT_CORNER}
                     THEN <<3200, 3200, 0>>
                     ELSE FullMesh[i]]]

TransformFaces ==
  {GoodFace, TurnedFace, PointFace, NarrowEyeFace, NarrowMouthFace}

\* the four influences inverseTransformPoint computes at (x, y)
InfluencesAt(m, x, y, landmarks) ==
  [face |-> calculateFaceSlimInfluence(x, y, landmarks),
   leftEye |-> calculateEyeInfluence(m, x, y, landmarks.leftEyeCenter, landmarks),
   rightEye |-> calculateEyeInfluence(m, x, y, landmarks.rightEyeCenter, landmarks),
   mouth |-> calculateMouthInfluence(m, x, y, landmarks.mouthCenter2, landmarks)]

\* in tenths of a pixel
TransformXs == {1600, 2000, 2200, 2400, 2600, 2900, 3200, 3600, 3900, 4200, 4800}
TransformYs == {1200, 1600, 2000, 2400, 2600, 2800, 3200, 3600, 4000}

TransformFilters ==
  {adjustForPerformance(MorphNew, t) : t \in Tiers}
  \cup {[adjustForPerformance(MorphNew, t) EXCEPT !.intensity = 0] : t \in Tiers}

TransformInit ==
  /\ pm = PerformanceManagerNew
  /\ app = AppNew
  /\ awaiting = 0
  /\ rafQueue = {}
  /\ renderer = RendererNew
  /\ canvas = CanvasNew
  /\ morph \in TransformFilters
  /\ probe \in {[op |-> "inverseTransformPoint", done |-> FALSE,
                 x |-> x, y |-> y, face |-> face, result |-> <<>>,
                 influences |-> <<>>] :
                  x \in TransformXs, y \in TransformYs, face \in TransformFaces}

TransformCall ==
  /\ probe.op = "inverseTransformPoint"
  /\ ~probe.done
  /\ probe' = [probe EXCEPT !.done = TRUE,
                 !.result = inverseTransformPoint(morph, probe.x, probe.y,
                              getMorphingLandmarks(probe.face)),
                 !.influences = <<InfluencesAt(morph, probe.x, probe.y,
                                   getMorphingLandmarks(probe.face))>>]
  /\ UNCHANGED <<pm, app, awaiting, rafQueue, renderer, morph, canvas>>

TransformNext == TransformCall

SpecTransform == TransformInit /\ [][TransformNext]_vars

(***************************************************************************)
(* MorphFilter.draw called on its own: any face, any tier in the options,  *)
(* and a canvas whose getImageData or putImageData may throw.  probe holds *)
(* the call and what it did; canvas.drawn is what the call wrote.          *)
(***************************************************************************)
\* the face near the right edge and near the left edge of the canvas
EdgeFace == [id |-> "edge", scaledMesh |-> Shift(FullMesh, 2600)]
LeftEdgeFace == [id |-> "leftedge", scaledMesh |-> Shift(FullMesh, 0 - 2600)]

DrawFaces ==
  {GoodFace, ShortFace, MidFace, FarFace, TurnedFace, PointFace, EdgeFace,
   LeftEdgeFace}

CtxFailures == {"none", "read", "write"}

DrawInit ==
  /\ pm = PerformanceManagerNew
  /\ app = AppNew
  /\ awaiting = 0
  /\ rafQueue = {}
  /\ renderer = [currentFilterName |-> "face_morph"]
  /\ canvas = CanvasNew
  /\ morph = MorphNew
  /\ probe \in {[op |-> "draw", done |-> FALSE, face |-> face,
                 performanceLevel |-> t, ctxFails |-> f, threw |-> FALSE] :
                  face \in DrawFaces, t \in Tiers, f \in CtxFailures}

DrawCall ==
  /\ probe.op = "draw"
  /\ ~probe.done
  /\ LET out == MorphDrawWith(morph, probe.face,
                   [performanceLevel |-> probe.performanceLevel], probe.ctxFails)
     IN /\ probe' = [probe EXCEPT !.done = TRUE, !.threw = out.threw]
        /\ morph' = out.morph
        /\ canvas' = [canvas EXCEPT !.drawn = out.drawn]
  /\ UNCHANGED <<pm, app, awaiting, rafQueue, renderer>>

DrawNext == DrawCall

SpecDraw == DrawInit /\ [][DrawNext]_vars

(***************************************************************************)
(* C1: across any updateFPS call the tier stays as it is or takes one      *)
(* downward step, high -> medium or medium -> low: it never goes from high *)
(* to low in one call, and is never raised.                                *)
(***************************************************************************)
TierStepsDownOnly ==
  [][\/ pm'.performanceLevel = pm.performanceLevel
     \/ pm.performanceLevel = "high" /\ pm'.performanceLevel = "medium"
     \/ pm.performanceLevel = "medium" /\ pm'.performanceLevel = "low"]_vars

\* the tier has reached low and a further below-target sample was applied
TierAtFloorWitness ==
  /\ pm.performanceLevel = "low"
  /\ pm.frameCount = 4 * SampleFrames
  /\ pm.fps < PERFORMANCE.LOW.targetFPS - FpsMargin
  /\ pm.dynamicSkipInterval = 5

(***************************************************************************)
(* C2: in every reachable state of the controller the dynamic skip         *)
(* interval is an integer in 1..5.                                         *)
(***************************************************************************)
SkipIntervalInBounds == pm.dynamicSkipInterval \in MinSkip..MaxSkip

\* after the fifth sample the interval is at the ceiling and the sample was
\* below target: the increment met the ceiling or brought the interval to it
SkipAtCeilingWitness ==
  /\ pm.frameCount = 5 * SampleFrames
  /\ pm.dynamicSkipInterval = MaxSkip
  /\ pm.fps < PERFORMANCE.LOW.targetFPS - FpsMargin

(***************************************************************************)
(* C3: whenever the canvas shows the paint of the latest tick, every morph *)
(* draw on it used the bundle MORPH configures for the controller's tier   *)
(* at that tick (the tier changes only when a tick begins).                *)
(***************************************************************************)
MorphUsesActiveTier ==
  canvas.frame = pm.frameCount =>
    \A i \in 1..Len(canvas.drawn) :
      canvas.drawn[i].filter = "face_morph" =>
        canvas.drawn[i].params = <<MORPH[toUpperCase(pm.performanceLevel)]>>

(***************************************************************************)
(* C4: when a suspended tick goes on after stop(), with the loop not       *)
(* running, the detection result is neither stored as the cached snapshot  *)
(* nor painted.                                                            *)
(***************************************************************************)
LateResultDiscarded ==
  [][(awaiting' < awaiting /\ ~app.isRunning) =>
       (pm'.cachedFaces = pm.cachedFaces /\ canvas' = canvas)]_vars

(***************************************************************************)
(* C5: never more than one tick is in progress or scheduled.               *)
(***************************************************************************)
AtMostOneTickChain == awaiting + Cardinality(rafQueue) <= 1

(***************************************************************************)
(* C6: a tick that paints with a filter selected paints every face of its  *)
(* list whose landmark set is complete and in view, wherever a face with   *)
(* an absent landmark stands in the list.                                  *)
(***************************************************************************)
Painted(face, c) == \E i \in 1..Len(c.drawn) : c.drawn[i].face = face.id

Complete(face) == DOMAIN face.scaledMesh = DOMAIN FullMesh

InView(face) == shouldCullAnimation(face, CanvasWidth, CanvasHeight) = "keep"

MalformedFaceSkippedAlone ==
  [][(canvas' # canvas /\ renderer.currentFilterName # "none") =>
       \A i \in 1..Len(pm'.cachedFaces.faces) :
         LET face == pm'.cachedFaces.faces[i]
         IN (Complete(face) /\ InView(face)) => Painted(face, canvas')]_vars

(***************************************************************************)
(* C7: with the loop left running, every tick that ends, normally or in    *)
(* the catch, leaves exactly one next tick scheduled, the one the app      *)
(* holds the handle of; and the ticks go on: a running loop always has     *)
(* exactly one tick in progress or scheduled, so the fair browser and      *)
(* detector of SpecLoop always have a next step of the loop to take.       *)
(***************************************************************************)
TickEnds ==
  \/ awaiting' < awaiting
  \/ pm'.frameCount > pm.frameCount /\ awaiting' = awaiting

EveryTickSchedulesTheNext ==
  /\ [][TickEnds => /\ awaiting' = 0
                    /\ rafQueue' = {app'.animationFrameId}
                    /\ app'.animationFrameId # 0]_vars
  /\ [](app.isRunning => awaiting + Cardinality(rafQueue) = 1)

\* a tick whose render threw on a face without RIGHT_EYE, on a skipped
\* frame, has scheduled the next tick
CatchScheduledWitness ==
  /\ app.isRunning
  /\ pm.dynamicSkipInterval > 1
  /\ app.skipFrameCounter % pm.dynamicSkipInterval # 1
  /\ canvas.frame = pm.frameCount
  /\ renderer.currentFilterName # "none"
  /\ pm.cachedFaces = Array(<<ShortFace, GoodFace>>)
  /\ canvas.drawn = <<>>
  /\ Cardinality(rafQueue) = 1

(***************************************************************************)
(* C8: interpolateFaces(B, 0.3) with the cached snapshot A returns, for    *)
(* every face index in both and every landmark index in both meshes, the   *)
(* point A + (B - A) * 0.3 in x, y and depth (stated times ten).           *)
(***************************************************************************)
InterpolationBlendLaw ==
  (probe.op = "interpolateFaces" /\ probe.done /\ probe.cached.kind = "array") =>
    LET A == probe.cached.faces
        B == probe.faces
    IN \A i \in 1..Min(Len(A), Len(B)) :
         \A j \in DOMAIN A[i].scaledMesh \cap DOMAIN B[i].scaledMesh :
           \A k \in 1..3 :
             10 * probe.result[i].scaledMesh[j][k] =
               10 * A[i].scaledMesh[j][k]
               + 3 * (B[i].scaledMesh[j][k] - A[i].scaledMesh[j][k])

\* two faces in both snapshots, the meshes of unequal length, and the
\* result is not the new snapshot itself
InterpolatedWitness ==
  /\ probe.op = "interpolateFaces"
  /\ probe.done
  /\ probe.cached.kind = "array"
  /\ Len(probe.cached.faces) = 2
  /\ Len(probe.faces) = 2
  /\ DOMAIN probe.cached.faces[1].scaledMesh # DOMAIN probe.faces[1].scaledMesh
  /\ probe.result # probe.faces
  /\ probe.result[2].scaledMesh[0] = <<550, 1400, 990>>

(***************************************************************************)
(* C9: the region calculateProcessingRegion returns has width >= 0 and     *)
(* height >= 0 and lies inside the canvas: 0 <= minX, minX + width <=      *)
(* canvasWidth, 0 <= minY, minY + height <= canvasHeight.                  *)
(***************************************************************************)
RegionInsideCanvas ==
  (probe.op = "calculateProcessingRegion" /\ probe.done) =>
    /\ probe.region.width >= 0
    /\ probe.region.height >= 0
    /\ 0 <= probe.region.minX
    /\ probe.region.minX + probe.region.width <= probe.canvasWidth
    /\ 0 <= probe.region.minY
    /\ probe.region.minY + probe.region.height <= probe.canvasHeight

(***************************************************************************)
(* C10: at a whole coordinate inside the buffer bilinearSample returns the *)
(* four channel values stored for that pixel.                              *)
(***************************************************************************)
SampleReturnsStoredPixel ==
  (/\ probe.op = "bilinearSample"
   /\ probe.done
   /\ probe.x2 % 2 = 0 /\ probe.y2 % 2 = 0
   /\ 0 <= probe.x2 /\ probe.x2 < 2 * probe.width
   /\ 0 <= probe.y2 /\ probe.y2 < 2 * probe.height) =>
    LET index == ((probe.y2 \div 2) * probe.width + probe.x2 \div 2) * 4
    IN probe.result = [i \in 1..4 |-> probe.imageData[index + i - 1]]

(***************************************************************************)
(* C11: with intensity 0, inverseTransformPoint(x, y, landmarks) returns   *)
(* the point (x, y) itself, whichever deformation regions it lies in.      *)
(***************************************************************************)
IdentityAtZeroIntensity ==
  (probe.op = "inverseTransformPoint" /\ probe.done /\ morph.intensity = 0) =>
    probe.result = <<10 * probe.x, 10 * probe.y>>

\* a point off the center of the left eye, inside the eye's region and
\* inside the face's, sent through a filter of no intensity
ZeroIntensityInRegionsWitness ==
  /\ probe.op = "inverseTransformPoint"
  /\ probe.done
  /\ morph.intensity = 0
  /\ morph.eyeScaleFactor = 250
  /\ probe.face = TurnedFace
  /\ <<probe.x, probe.y>> = <<2600, 2400>>
  /\ LET landmarks == getMorphingLandmarks(probe.face)
     IN /\ calculateFaceSlimInfluence(probe.x, probe.y, landmarks) > 0
        /\ calculateEyeInfluence(morph, probe.x, probe.y,
                                 landmarks.leftEyeCenter, landmarks) \in 1..999
  /\ probe.result = <<26000, 24000>>

(***************************************************************************)
(* C17: with the parameters of tier high (eye scale 2.5, intensity 1.0)    *)
(* the destination pixel at the left eye center maps to itself.            *)
(***************************************************************************)
EyeCenterIsFixedPoint ==
  LET landmarks == getMorphingLandmarks(probe.face)
  IN (/\ probe.op = "inverseTransformPoint"
      /\ probe.done
      /\ morph = adjustForPerformance(MorphNew, "high")
      /\ probe.x = landmarks.leftEyeCenter[1]
      /\ probe.y = landmarks.leftEyeCenter[2]) =>
       probe.result = <<10 * probe.x, 10 * probe.y>>

(***************************************************************************)
(* C12: for every tier and memory-pressure level L, getQualitySettings     *)
(* returns skipFrames = min(base + L, 5), particleCount = max(base - L, 1) *)
(* and shadowBlur = max(base - 2 * L, 0), the tier's other fields as they  *)
(* are; tier medium at level 2 gives skip 4, particles 4, blur 1.          *)
(***************************************************************************)
QualitySettingsAdjusted ==
  probe.op = "getQualitySettings" =>
    LET base == PERFORMANCE[toUpperCase(pm.performanceLevel)]
        L == pm.memoryPressureLevel
        settings == probe.settings[1]
    IN /\ L \in 0..2
       /\ DOMAIN settings = DOMAIN base
       /\ settings.skipFrames = Min(base.skipFrames + L, 5)
       /\ settings.particleCount = Max(base.particleCount - L, 1)
       /\ settings.shadowBlur = Max(base.shadowBlur - 2 * L, 0)
       /\ \A f \in DOMAIN base \ {"skipFrames", "particleCount", "shadowBlur"} :
            settings[f] = base[f]
       /\ (pm.performanceLevel = "medium" /\ L = 2) =>
            /\ settings.skipFrames = 4
            /\ settings.particleCount = 4
            /\ settings.shadowBlur = 1

\* the settings asked for at tier low, reached by stepping down, under the
\* highest pressure: skip 5 + 2 and blur 0 - 4 meet their clamps
QualityClampedWitness ==
  /\ probe.op = "getQualitySettings"
  /\ pm.performanceLevel = "low"
  /\ pm.frameCount >= SampleFrames
  /\ pm.memoryPressureLevel = 2
  /\ probe.settings[1].skipFrames = 5
  /\ probe.settings[1].particleCount = 2
  /\ probe.settings[1].shadowBlur = 0

(***************************************************************************)
(* C13: manageTensorMemory leaves the tier and the dynamic skip interval   *)
(* (and everything but the memory-pressure level) as they are, sets the    *)
(* level to 0, 1 or 2, and calls the cleanup exactly when the level is 2.  *)
(***************************************************************************)
MemoryUpdateKeepsTier ==
  [][probe'.op = "manageTensorMemory" =>
       /\ pm'.performanceLevel = pm.performanceLevel
       /\ pm'.dynamicSkipInterval = pm.dynamicSkipInterval
       /\ pm'.memoryPressureLevel \in 0..2
       /\ pm' = [pm EXCEPT !.memoryPressureLevel = pm'.memoryPressureLevel]
       /\ probe'.disposed <=> pm'.memoryPressureLevel = 2]_vars

\* more tensors than the high threshold, found at tier high with frames
\* already counted: level 2 and the cleanup
MemoryCleanupWitness ==
  /\ probe.op = "manageTensorMemory"
  /\ probe.numTensors > PRESSURE_THRESHOLD_HIGH
  /\ probe.disposed
  /\ pm.memoryPressureLevel = 2
  /\ pm.performanceLevel = "high"
  /\ pm.dynamicSkipInterval = 1
  /\ pm.frameCount > SampleFrames

(***************************************************************************)
(* C18: at a sampling frame whose FPS is below the tier's target - 5,      *)
(* updateFPS sets the skip interval to min(old + 1, 5) and steps the tier  *)
(* down one level (high to medium, medium to low, low stays low); the      *)
(* interval goes up at tier low too.                                       *)
(***************************************************************************)
SlowSampleStepsDown ==
  [][(/\ pm'.frameCount = pm.frameCount + 1
      /\ pm'.frameCount % 30 = 0
      /\ pm'.fps < PERFORMANCE[toUpperCase(pm.performanceLevel)].targetFPS - 5) =>
       /\ pm'.dynamicSkipInterval =
            (IF pm.dynamicSkipInterval + 1 <= 5 THEN pm.dynamicSkipInterval + 1 ELSE 5)
       /\ pm'.performanceLevel =
            (CASE pm.performanceLevel = "high" -> "medium"
               [] pm.performanceLevel = "medium" -> "low"
               [] pm.performanceLevel = "low" -> "low")]_vars

\* three slow samples in a row: the third finds the tier at low and still
\* raises the interval, to 4
SlowAtLowWitness ==
  /\ pm.frameCount = 3 * SampleFrames
  /\ pm.performanceLevel = "low"
  /\ pm.dynamicSkipInterval = 4
  /\ pm.fps < PERFORMANCE.LOW.targetFPS - FpsMargin

(***************************************************************************)
(* C19: updateFPS changes the FPS estimate, the tier and the skip interval *)
(* only on calls where the incremented frame count is a multiple of 30; on *)
(* every other call only frameCount changes, by 1.  At a sampling call the *)
(* estimate is round(1000 / deltaTime) of that call's deltaTime.           *)
(***************************************************************************)
SampledEveryThirtyFrames ==
  [][probe'.op = "updateFPS" =>
       /\ pm'.frameCount = pm.frameCount + 1
       /\ IF pm'.frameCount % 30 # 0
          THEN pm' = [pm EXCEPT !.frameCount = pm.frameCount + 1]
          ELSE pm'.fps = (IF probe'.deltaTime = 0 THEN Infinity
                          ELSE (2 * 1000 + probe'.deltaTime)
                                 \div (2 * probe'.deltaTime))]_vars

\* the second sample, 16 ms after the frame before it, follows a slow first
\* sample (the tier went from high to medium, the interval to 2 and back)
SecondSampleWitness ==
  /\ probe.op = "updateFPS"
  /\ probe.deltaTime = 16
  /\ pm.frameCount = 2 * SampleFrames
  /\ pm.fps = 63
  /\ pm.performanceLevel = "medium"
  /\ pm.dynamicSkipInterval = 1

(***************************************************************************)
(* C20: on every tick the detection runs if and only if the tick counter   *)
(* modulo the current dynamic skip interval is 0, and the counter goes up  *)
(* by 1 on every tick, skipped or not; the tier's skipFrames and the       *)
(* memory pressure play no part.                                           *)
(***************************************************************************)
TickBegins == pm'.frameCount = pm.frameCount + 1

DetectionByDynamicInterval ==
  [][TickBegins =>
       /\ app'.skipFrameCounter = app.skipFrameCounter + 1
       /\ awaiting' = awaiting + 1
            <=> app.skipFrameCounter % pm'.dynamicSkipInterval = 0
       /\ awaiting' = awaiting
            <=> app.skipFrameCounter % pm'.dynamicSkipInterval # 0]_vars

\* tick 32, after the slow sample of tick 30 made the interval 2 at tier
\* low (skipFrames 5): its counter 31 is odd, the tick is skipped and ends
SkippedTickWitness ==
  /\ pm.frameCount = 32
  /\ app.skipFrameCounter = 32
  /\ pm.dynamicSkipInterval = 2
  /\ pm.performanceLevel = "low"
  /\ awaiting = 0
  /\ canvas.frame = 32
  /\ Cardinality(rafQueue) = 1

(***************************************************************************)
(* C14: after an uncached probe the tier is the classification by duration *)
(* lowered by at most one tier by the platform adjustments.                *)
(***************************************************************************)
PlatformLowersAtMostOneTier ==
  (probe.op = "detectPerformance" /\ probe.done /\ probe.probed
   /\ pm.frameCount = 0) =>
    \/ pm.performanceLevel = probe.raw
    \/ probe.raw = "high" /\ pm.performanceLevel = "medium"
    \/ probe.raw = "medium" /\ pm.performanceLevel = "low"

(***************************************************************************)
(* C15: detectPerformance runs the test loop and writes the cache item if  *)
(* and only if there is no parseable record, or the record is 24 hours old *)
(* or older, or its userAgent is not the current one; on a hit the tier is *)
(* the cached level and neither the loop nor the write happens.            *)
(***************************************************************************)
ProbeIffCacheMiss ==
  (probe.op = "detectPerformance" /\ probe.done /\ pm.frameCount = 0) =>
    LET miss == \/ probe.cached.kind # "record"
                \/ Now - probe.cached.timestamp >= 24 * 60 * 60 * 1000
                \/ probe.cached.userAgent # probe.agent.name
    IN /\ probe.probed <=> miss
       /\ probe.wrote <=> miss
       /\ ~miss => /\ pm.performanceLevel = probe.cached.level
                   /\ probe.stored = probe.cached
       /\ (miss /\ ~probe.setItemThrows) =>
            /\ probe.stored.kind = "record"
            /\ probe.stored.level = pm.performanceLevel
            /\ probe.stored.userAgent = probe.agent.name
            /\ probe.stored.timestamp >= Now

\* a record one ms short of 24 hours old, of this device: the cached level
\* low is taken, though the test loop would have found the device fast
CacheHitWitness ==
  /\ probe.op = "detectPerformance"
  /\ probe.done
  /\ pm.frameCount = 0
  /\ probe.cached = CacheItem("record", "low", Now - CACHE_DURATION_MS + 1,
                              "chrome-windows")
  /\ probe.agent.name = "chrome-windows"
  /\ probe.testDuration = 5
  /\ ~probe.probed
  /\ ~probe.wrote
  /\ pm.performanceLevel = "low"

(***************************************************************************)
(* C16: in every state from construction through init, with any content of *)
(* the cache item, and any updateFPS calls, the tier is one of high,       *)
(* medium, low.                                                            *)
(***************************************************************************)
TierIsOneOfThree == pm.performanceLevel \in {"high", "medium", "low"}

(***************************************************************************)
(* C21: on a skipped tick the renderer is given the blend of the snapshot  *)
(* the cache held before the last detection and the snapshot detected      *)
(* last: for a face index in both and a landmark in both meshes the point  *)
(* previous + (lastDetected - previous) * 0.3 (stated times ten), and a    *)
(* face or a landmark in one of them only as it is.                        *)
(***************************************************************************)
SkippedTickBlendsSnapshots ==
  [][(/\ TickBegins
      /\ awaiting' = awaiting
      /\ probe.op = "detectFaces"
      /\ probe.previous.kind = "array"
      /\ pm.cachedFaces.kind = "array") =>
       LET previous == probe.previous.faces
           lastDetected == pm.cachedFaces.faces
           handed == canvas'.faces
       IN /\ Len(handed) = Len(lastDetected)
          /\ \A i \in 1..Len(lastDetected) :
               IF i > Len(previous) THEN handed[i] = lastDetected[i]
               ELSE \A j \in DOMAIN lastDetected[i].scaledMesh :
                      IF j \notin DOMAIN previous[i].scaledMesh
                      THEN handed[i].scaledMesh[j] = lastDetected[i].scaledMesh[j]
                      ELSE \A k \in 1..3 :
                             10 * handed[i].scaledMesh[j][k] =
                               10 * previous[i].scaledMesh[j][k]
                               + 3 * (lastDetected[i].scaledMesh[j][k]
                                      - previous[i].scaledMesh[j][k])]_vars

(***************************************************************************)
(* C22: when the detector throws or gives nothing (no value, or no face)   *)
(* on a detection tick, detectFaces resolves to the empty list, and the    *)
(* tick clears the canvas and draws no face, leaves the empty list in the  *)
(* cache and schedules the next tick.                                      *)
(***************************************************************************)
GaveNothing(outcome) ==
  \/ outcome.kind = "throws"
  \/ outcome.kind = "returns" /\ outcome.value \in {UndefinedFaces, Array(<<>>)}

DetectionFailureIsZeroFaces ==
  [][(awaiting' = awaiting - 1 /\ GaveNothing(probe'.outcome)) =>
       /\ detectFaces(probe'.outcome) = Array(<<>>)
       /\ canvas' = [frame |-> pm.frameCount, drawn |-> <<>>, faces |-> <<>>]
       /\ pm'.cachedFaces = Array(<<>>)
       /\ rafQueue' = {app'.animationFrameId}
       /\ app'.animationFrameId # 0]_vars

(***************************************************************************)
(* C23: a draw that throws for one face is caught by render: render goes   *)
(* on to the later faces and calls draw for every one of them its cull     *)
(* check keeps, and render throws only when a cull check throws, never     *)
(* because a draw did.                                                     *)
(***************************************************************************)
DrawFailureIsContained ==
  (probe.op = "render" /\ probe.done /\ renderer.currentFilterName # "none") =>
    LET faces == probe.faces
        out == probe.result
        cull(i) == shouldCullAnimation(faces[i], CanvasWidth, CanvasHeight)
        reached(i) == \A j \in 1..i : cull(j) # "throw"
    IN /\ out.threw <=> \E i \in 1..Len(faces) : cull(i) = "throw"
       /\ \A i \in 1..Len(faces) :
            (reached(i) /\ cull(i) = "keep") <=>
              \E c \in 1..Len(out.calls) : out.calls[c].index = i

\* the stars on a face of 300 points (no right cheek) and a whole face: the
\* first draw threw after two stars, the second face has its three
DrawFailedWitness ==
  /\ probe.op = "render"
  /\ probe.done
  /\ renderer.currentFilterName = "twinkling_stars"
  /\ probe.faces = <<MidFace, GoodFace>>
  /\ probe.result.calls = <<[index |-> 1, threw |-> TRUE],
                            [index |-> 2, threw |-> FALSE]>>
  /\ ~probe.result.threw
  /\ canvas.drawn = <<[face |-> "mid", filter |-> "twinkling_stars",
                       region |-> <<>>, params |-> <<[parts |-> 2]>>],
                      [face |-> "good", filter |-> "twinkling_stars",
                       region |-> <<>>, params |-> <<>>]>>

(***************************************************************************)
(* C24: a MorphFilter.draw call writes exactly the processing region it    *)
(* computed, a rectangle of positive area inside the canvas, or writes     *)
(* nothing; and when the region has no area, or the pixel read, the        *)
(* transform or the pixel write fails, it writes nothing and does not      *)
(* throw.                                                                  *)
(***************************************************************************)
RegionOfDraw ==
  LET dims == getFaceDimensions(getFacePoints(probe.face))
  IN calculateProcessingRegion(dims.eyeCenter2, dims.faceWidth, dims.faceHeight,
                               CanvasWidth, CanvasHeight, probe.performanceLevel)

MorphWritesRegionOrNothing ==
  (probe.op = "draw" /\ probe.done) =>
    /\ \/ canvas.drawn = <<>>
       \/ /\ Len(canvas.drawn) = 1
          /\ ~probe.threw
          /\ canvas.drawn[1].region = <<RegionOfDraw>>
          /\ RegionOfDraw.width > 0 /\ RegionOfDraw.height > 0
          /\ 0 <= RegionOfDraw.minX
          /\ RegionOfDraw.minX + RegionOfDraw.width <= CanvasWidth
          /\ 0 <= RegionOfDraw.minY
          /\ RegionOfDraw.minY + RegionOfDraw.height <= CanvasHeight
    /\ ~FaceDimensionsThrow(getFacePoints(probe.face)) =>
         /\ (\/ RegionOfDraw.width <= 0
             \/ RegionOfDraw.height <= 0
             \/ probe.ctxFails # "none"
             \/ InverseTransformThrows(probe.face))
              => canvas.drawn = <<>>
         /\ ~probe.threw

\* the write threw on a whole face in view: nothing written, nothing thrown
MorphWriteFailedWitness ==
  /\ probe.op = "draw"
  /\ probe.done
  /\ probe.face = GoodFace
  /\ probe.ctxFails = "write"
  /\ RegionOfDraw.width > 0
  /\ canvas.drawn = <<>>
  /\ ~probe.threw

(***************************************************************************)
(* C25: an eye, mouth or face region of no width (its two landmarks have   *)
(* the same x) has influence 0 at every point, the center of the region    *)
(* included, and leaves the point where it is: with all three regions of   *)
(* no width inverseTransformPoint returns the point itself.                *)
(***************************************************************************)
ZeroWidthRegionHasZeroInfluence ==
  (probe.op = "inverseTransformPoint" /\ probe.done) =>
    LET landmarks == getMorphingLandmarks(probe.face)
        influences == probe.influences[1]
        noEye == landmarks.leftEyeOuter[1] = landmarks.leftEyeInner[1]
        noMouth == landmarks.mouthLeftCorner[1] = landmarks.mouthRightCorner[1]
        noFace == landmarks.faceLeft[1] = landmarks.faceRight[1]
    IN /\ noEye => influences.leftEye = 0 /\ influences.rightEye = 0
       /\ noMouth => influences.mouth = 0
       /\ noFace => influences.face = 0
       /\ (noEye /\ noMouth /\ noFace) =>
            probe.result = <<10 * probe.x, 10 * probe.y>>

(***************************************************************************)
(* C26: on every tick of the loop whose frame count is a multiple of the   *)
(* active tier's cleanupInterval (60, 40 or 20) the condition under which  *)
(* animate calls manageTensorMemory is true, so that the memory pressure   *)
(* is measured on that tick.                                               *)
(***************************************************************************)
CleanupDueOnCadence ==
  (/\ app.isRunning
   /\ pm.frameCount > 0
   /\ pm.frameCount % PERFORMANCE[toUpperCase(pm.performanceLevel)].cleanupInterval = 0)
    => CleanupDue(getStats(pm))

(***************************************************************************)
(* C27: between two detection ticks there are never more than 4 skipped    *)
(* ticks in a row (the largest skip interval, 5, less 1), the ticks at     *)
(* which the interval changes included.                                    *)
(***************************************************************************)
AtMostFourSkippedInARow ==
  probe.op = "ticks" => probe.skipped <= MaxSkip - 1

\* as amended: never more than 6 skipped ticks in a row, and more than 4
\* only in the ticks after a sample lowered the interval from 5 to 4 (the
\* counter is not reset, and the multiples of 4 and of 5 are up to 7 apart)
AtMostSixSkippedInARow ==
  probe.op = "ticks" =>
    /\ probe.skipped <= MaxSkip + 1
    /\ probe.skipped > MaxSkip - 1 =>
         /\ pm.dynamicSkipInterval = MaxSkip - 1
         /\ pm.frameCount % SampleFrames < MaxSkip - 2

\* ticks 147 to 152 skipped: detection at counter 145 with the interval 5,
\* the sample of tick 150 made it 4, and 152 is the next multiple of 4
SixSkippedWitness ==
  /\ probe.op = "ticks"
  /\ probe.skipped = 6
  /\ pm.frameCount = 152
  /\ app.skipFrameCounter = 152
  /\ pm.dynamicSkipInterval = 4

(***************************************************************************)
(* C28: after any sequence of setFilter calls the current filter name is   *)
(* 'none' or the name of a registered filter; a call with any other name   *)
(* returns false and leaves the current filter as it was, a call with      *)
(* 'none' or a registered name returns true and makes it current; and the  *)
(* change callback fires only in a call in which setFilter returned true.  *)
(***************************************************************************)
CurrentFilterIsRegistered ==
  /\ [](renderer.currentFilterName \in DOMAIN filterDefinitions \cup {"none"})
  /\ [][probe'.calls = probe.calls + 1 =>
          /\ probe'.name \notin DOMAIN filterDefinitions \cup {"none"} =>
               ~probe'.returned /\ renderer' = renderer
          /\ probe'.name \in DOMAIN filterDefinitions \cup {"none"} =>
               probe'.returned /\ renderer'.currentFilterName = probe'.name
          /\ probe'.fired # probe.fired =>
               probe'.returned /\ probe'.fired = probe.fired + 1]_vars

\* a button with no filter of its name was clicked after the stars were
\* selected: false returned, the stars still current, one callback so far
UnknownFilterRefusedWitness ==
  /\ probe.op = "selectFilter"
  /\ probe.calls = 2
  /\ probe.name = "constructor"
  /\ ~probe.returned
  /\ probe.onFilterChange
  /\ probe.fired = 1
  /\ probe.active = "twinkling_stars"
  /\ renderer.currentFilterName = "twinkling_stars"

(***************************************************************************)
(* C29: at most one capture is suspended at its await at any time, and     *)
(* isCapturing is set for as long as it is; a click that comes while a     *)
(* capture is suspended makes no canvas, no download and no status update  *)
(* and suspends no second call, whatever the order of the clicks and of    *)
(* the completions of canvas.toBlob.                                       *)
(***************************************************************************)
OneCaptureAtATime ==
  /\ [](probe.awaitingBlob <= 1 /\ (probe.awaitingBlob = 1 => probe.isCapturing))
  /\ [][probe'.clicks = probe.clicks + 1 /\ probe.awaitingBlob > 0 =>
          probe' = [probe EXCEPT !.clicks = probe.clicks + 1]]_vars

\* three clicks with the video playing, the first capture still suspended:
\* one canvas, nothing downloaded, the status untouched
ClickDuringCaptureWitness ==
  /\ probe.op = "capture"
  /\ probe.clicks = 3
  /\ probe.videoWidth > 0
  /\ probe.awaitingBlob = 1
  /\ probe.isCapturing
  /\ probe.canvases = 1
  /\ probe.downloads = 0
  /\ probe.statuses = 0

(***************************************************************************)
(* C30: accessCamera makes at most RETRY_ATTEMPTS requests for a stream,   *)
(* whatever each request does and on every platform; it ends (given that   *)
(* every request settles), having returned a stream that is not null or    *)
(* having thrown; and when the attempt numbered RETRY_ATTEMPTS fails with  *)
(* an error, the call throws that error.  (An attempt that resolves to no  *)
(* stream has no error: after the last one the error of line 82 is         *)
(* thrown.)                                                                *)
(***************************************************************************)
CameraEnded == probe.at \in {"returned", "threw"}

AccessCameraEndsInThreeRequests ==
  /\ [](/\ probe.requests <= RETRY_ATTEMPTS
        /\ probe.at = "returned" =>
             probe.stream # NoStream /\ probe.thrown = NoError
        /\ probe.at = "threw" =>
             probe.stream = NoStream /\ probe.thrown # NoError
        /\ (/\ Len(probe.outcomes) = RETRY_ATTEMPTS
            /\ probe.outcomes[RETRY_ATTEMPTS] \in {"rejects", "unsupported"}) =>
             /\ probe.at = "threw"
             /\ probe.thrown.attempt = RETRY_ATTEMPTS)
  /\ <>CameraEnded

\* Safari: three requests, each rejected, two waits in between; the third
\* attempt's error thrown
ThirdErrorThrownWitness ==
  /\ probe.op = "accessCamera"
  /\ probe.platform.isSafari
  /\ probe.requests = RETRY_ATTEMPTS
  /\ probe.outcomes = <<"rejects", "rejects", "rejects">>
  /\ probe.at = "threw"
  /\ probe.thrown = [attempt |-> RETRY_ATTEMPTS, message |-> "rejected"]
  /\ probe.constraints # getCameraConstraints(probe.platform)
====
